---- MODULE Spec2Model ----
(***************************************************************************)
(* Shard router filter (Envoy Go plugin): tenant -> shard resolution over  *)
(* three tiers, memory LRU cache -> Redis -> S3 mapping document.          *)
(*                                                                         *)
(* One filter instance is built by filterFactory for each stream; every   *)
(* instance owns its memory cache and shares Redis and the S3 document     *)
(* with the other instances.  orchestratedLookup is split at its network   *)
(* calls, which is where the resolutions of concurrent streams interleave. *)
(***************************************************************************)
EXTENDS Integers, Sequences, FiniteSets, TLC

VARIABLES
    table,           \* MappingData.Mappings, the parsed S3 document
    conf,            \* *PluginConfig shared by the filter instances
    redis,           \* Redis keyspace: key -> entry
    created,         \* created[f]: filterFactory has built instance f
    memoryCache,     \* memoryCache[f]: f.memoryCache, most recently used first
    currentShardID,  \* currentShardID[f]: f.currentShardID
    pc,              \* pc[f]: position of f inside orchestratedLookup
    tenantID,        \* tenantID[f]: argument of the running orchestratedLookup
    shardID,         \* shardID[f]: local shardID of the running orchestratedLookup
    ret,             \* ret[f]: (shardID, err) returned by orchestratedLookup
    calls,           \* calls[f]: network calls the running lookup has issued
    lastFound,       \* the lookup that returned last, when it returned a shard
    lruLog,          \* lruLog[f]: the uses of f's memory cache, as observed
    stream,          \* stream[f]: the HTTP stream f filters, its headers and statuses
    loader,          \* the configuration as Envoy gave it, Parse's error, a panic
    locks            \* f.mu, the lock of lru.Cache and the goroutines that take them

vars == <<table, conf, redis, created, memoryCache, currentShardID, pc,
          tenantID, shardID, ret, calls, lastFound, lruLog, stream, loader, locks>>

---------------------------------------------------------------------------
(* Bounds *)

NumFilters == 1        \* filter instances alive at the same time
MaxCacheSize == 2      \* largest memory_cache_size configured

Filters == 1..NumFilters

\* The runs of concurrent streams have one instance more.
ConcFilters == 1..(NumFilters + 1)

(* Program constants *)

DefaultRedisTTL == 300         \* 5 * time.Minute, in seconds
DefaultRedisKeyPrefix == "shard_router:"

---------------------------------------------------------------------------
(* Data *)

Tenants == {"tenant1", "acme", "missing"}

\* The tenants of the longer runs on one instance: tenant2 of the README
\* joins them, so that a cache of two entries can overflow.
AllTenants == Tenants \cup {"tenant2"}

TenantShardMapping(t, s) == [TenantID |-> t, ShardID |-> s]

\* Mapping documents: tenant1 and acme of the README's, one with a duplicated
\* tenant_id, one with an empty shard_id.
Tables ==
    { << TenantShardMapping("tenant1", "shard-a"),
         TenantShardMapping("acme", "shard-c") >>,
      << TenantShardMapping("tenant1", "shard-a"),
         TenantShardMapping("tenant1", "shard-b"),
         TenantShardMapping("acme", "shard-c") >>,
      << TenantShardMapping("tenant1", "shard-a"),
         TenantShardMapping("acme", "") >> }

NilErr == "<nil>"
ErrNoMapping == "no shard mapping found for tenant"
ErrRedis == "redis: connection refused or i/o timeout"
S3Errors == {"s3: GetObject failed", "s3: read body failed", "json: cannot unmarshal"}

NoFilterRet == [shard |-> "", err |-> NilErr]

\* A Redis key is absent (never set, or expired) or holds a string with a TTL.
Absent == [present |-> FALSE, val |-> "", ttl |-> 0]
Entry(v, ttl) == [present |-> TRUE, val |-> v, ttl |-> ttl]

\* The prefixes under which the Redis server holds keys: the default of this
\* plugin and that of a deployment configured with another redis_key_prefix.
OtherRedisKeyPrefix == "other:"
KeyPrefixes == {DefaultRedisKeyPrefix, OtherRedisKeyPrefix}
RedisKey(prefix, t) == prefix \o t
RedisKeys == {RedisKey(p, t) : p \in KeyPrefixes, t \in AllTenants \cup {""}}

---------------------------------------------------------------------------
(* lru.Cache[string, string] of hashicorp/golang-lru/v2: a sequence of     *)
(* entries, most recently used first.                                      *)

lruEntry(k, v) == [key |-> k, value |-> v]

lruIndex(c, k) ==
    IF \E i \in 1..Len(c) : c[i].key = k
    THEN CHOOSE i \in 1..Len(c) : c[i].key = k
    ELSE 0

lruRemoveAt(c, i) == SubSeq(c, 1, i - 1) \o SubSeq(c, i + 1, Len(c))

lruContains(c, k) == lruIndex(c, k) # 0

lruPeek(c, k) == IF lruContains(c, k) THEN c[lruIndex(c, k)].value ELSE ""

\* Mutant: a Get that reads the value and leaves the order alone (Peek).
lruGet_NoTouch(c, k) ==
    LET i == lruIndex(c, k) IN
    IF i = 0
    THEN [found |-> FALSE, value |-> "", cache |-> c]
    ELSE [found |-> TRUE, value |-> c[i].value, cache |-> c]

\* Cache.Get: a hit moves the entry to the front.
lruGet(c, k) ==
    LET i == lruIndex(c, k) IN
    IF i = 0
    THEN [found |-> FALSE, value |-> "", cache |-> c]
    ELSE [found |-> TRUE, value |-> c[i].value,
          cache |-> <<c[i]>> \o lruRemoveAt(c, i)]

\* Mutant: Add that never removes the oldest entry.
lruAdd_NoEvict(c, k, v, size) ==
    LET i == lruIndex(c, k) IN
    IF i # 0
    THEN <<lruEntry(k, v)>> \o lruRemoveAt(c, i)
    ELSE <<lruEntry(k, v)>> \o c

\* Cache.Add: an existing key is updated and moved to the front; a new key is
\* pushed to the front and the oldest entry is removed when the size is exceeded.
lruAdd(c, k, v, size) ==
    LET i == lruIndex(c, k) IN
    IF i # 0
    THEN <<lruEntry(k, v)>> \o lruRemoveAt(c, i)
    ELSE LET n == <<lruEntry(k, v)>> \o c IN
         IF Len(n) > size THEN SubSeq(n, 1, Len(n) - 1) ELSE n

---------------------------------------------------------------------------
(* The tiers of filter.go as functions of the state they read.             *)

\* Mutant: the result of Get is dropped, every lookup is a miss.
lookupInMemoryCache_NeverFound(c, t) ==
    [shardID |-> "", found |-> FALSE, cache |-> lruGet(c, t).cache]

\* lookupInMemoryCache: (shardID, found) and the cache after the Get.
lookupInMemoryCache(c, t) ==
    LET g == lruGet(c, t) IN
    IF g.found
    THEN [shardID |-> g.value, found |-> TRUE, cache |-> g.cache]
    ELSE [shardID |-> "", found |-> FALSE, cache |-> g.cache]

\* Mutant: Get under the default prefix, whatever the configuration says.
lookupInRedisCache_DefaultPrefix(rd, cf, t, fail) ==
    LET key == RedisKey(DefaultRedisKeyPrefix, t) IN
    IF fail THEN [shardID |-> "", err |-> ErrRedis, call |-> "redis.Get:err"]
    ELSE IF ~rd[key].present
    THEN [shardID |-> "", err |-> NilErr, call |-> "redis.Get:nil"]
    ELSE [shardID |-> rd[key].val, err |-> NilErr, call |-> "redis.Get:value"]

\* lookupInRedisCache: fail is the outcome of the Get under RedisTimeout
\* (connection error or deadline exceeded); redis.Nil is a miss, not an error.
lookupInRedisCache(rd, cf, t, fail) ==
    LET key == RedisKey(cf.RedisKeyPrefix, t) IN
    IF fail THEN [shardID |-> "", err |-> ErrRedis, call |-> "redis.Get:err"]
    ELSE IF ~rd[key].present
    THEN [shardID |-> "", err |-> NilErr, call |-> "redis.Get:nil"]
    ELSE [shardID |-> rd[key].val, err |-> NilErr, call |-> "redis.Get:value"]

\* Mutant: Set with expiration 0 instead of RedisTTL.
cacheInRedis_NoTTL(rd, cf, t, s, fail) ==
    LET key == RedisKey(cf.RedisKeyPrefix, t) IN
    IF fail THEN [redis |-> rd, err |-> ErrRedis, call |-> "redis.Set:err"]
    ELSE [redis |-> [rd EXCEPT ![key] = Entry(s, 0)],
          err |-> NilErr, call |-> "redis.Set:ok"]

\* cacheInRedis: Set(key, shardID, RedisTTL) under RedisTimeout.
cacheInRedis(rd, cf, t, s, fail) ==
    LET key == RedisKey(cf.RedisKeyPrefix, t) IN
    IF fail THEN [redis |-> rd, err |-> ErrRedis, call |-> "redis.Set:err"]
    ELSE [redis |-> [rd EXCEPT ![key] = Entry(s, cf.RedisTTL)],
          err |-> NilErr, call |-> "redis.Set:ok"]

RECURSIVE searchMappings(_, _, _)
RECURSIVE searchMappings_LastWins(_, _, _)

\* Mutant: the loop goes on after a match, the last mapping of a tenant wins.
searchMappings_LastWins(tbl, t, i) ==
    IF i > Len(tbl) THEN ""
    ELSE LET rest == searchMappings_LastWins(tbl, t, i + 1) IN
         IF rest # "" THEN rest
         ELSE IF tbl[i].TenantID = t THEN tbl[i].ShardID
         ELSE ""

\* The loop of lookupInS3 over mappingData.Mappings, from index i on.
searchMappings(tbl, t, i) ==
    IF i > Len(tbl) THEN ""
    ELSE IF tbl[i].TenantID = t THEN tbl[i].ShardID
    ELSE searchMappings(tbl, t, i + 1)

\* Mutant: the scan starts at the second mapping.
lookupInS3_SkipFirst(tbl, t, e) ==
    IF e # NilErr THEN [shardID |-> "", err |-> e]
    ELSE [shardID |-> searchMappings(tbl, t, 2), err |-> NilErr]

\* lookupInS3: e is the outcome of GetObject, ReadAll and Unmarshal.
lookupInS3(tbl, t, e) ==
    IF e # NilErr THEN [shardID |-> "", err |-> e]
    ELSE [shardID |-> searchMappings(tbl, t, 1), err |-> NilErr]

\* Mutant: Add with the key and the value swapped.
cacheInMemory_Swapped(c, cf, t, s) == lruAdd(c, s, t, cf.MemoryCacheSize)

\* cacheInMemory: Add under the write lock.
cacheInMemory(c, cf, t, s) == lruAdd(c, t, s, cf.MemoryCacheSize)

---------------------------------------------------------------------------
(* The branches of orchestratedLookup.                                     *)

\* Mutant: the test for an empty value is inverted.
redisTier_InvertedEmpty(r) ==
    IF r.err # NilErr THEN "s3"
    ELSE IF r.shardID = "" THEN "return"
    ELSE "s3"

\* Mutant: the value of Redis is returned without the test for an empty one.
redisTier_AcceptEmpty(r) ==
    IF r.err # NilErr THEN "s3" ELSE IF r.call = "redis.Get:value" THEN "return" ELSE "s3"

\* Mutant: whatever Redis answers, the lookup goes on to S3.
redisTier_NeverReturns(r) == "s3"

\* Tier 2: an error is logged and falls through, a non-empty value returns.
redisTier(r) ==
    IF r.err # NilErr THEN "s3"
    ELSE IF r.shardID # "" THEN "return"
    ELSE "s3"

\* Mutant: the error of lookupInS3 is not checked.
s3Tier_IgnoreErr(r) ==
    IF r.shardID # "" THEN "cache" ELSE "nomapping"

\* Mutant: the shard is cached without the test for an empty shard.
s3Tier_CacheEmpty(r) ==
    IF r.err # NilErr THEN "error" ELSE "cache"

\* Tier 3: an error returns, a non-empty shard is cached, else no mapping.
s3Tier(r) ==
    IF r.err # NilErr THEN "error"
    ELSE IF r.shardID # "" THEN "cache"
    ELSE "nomapping"

Found(s) == [shard |-> s, err |-> NilErr]
Failed(e) == [shard |-> "", err |-> e]

\* The log of one memory cache: its keys by last use (Get hit or Add), most
\* recent first, the key the last use removed, the last use and the one before.
NoUse == [kind |-> "", tenant |-> "", oldest |-> FALSE]
NoLog == [order |-> <<>>, evicted |-> "", last |-> NoUse, prev |-> NoUse]

---------------------------------------------------------------------------
(* Request headers and the extraction of the tenant.                       *)

NoHeader == "<absent>"          \* header.Get(...) with exists = false
NoAuthority == <<NoHeader>>     \* the same for :authority, whose value is a sequence

\* A host is the sequence of its characters, so that strings.Split acts on it.
HostTenant1 ==
    <<"t","e","n","a","n","t","1",".","e","x","a","m","p","l","e",".","c","o","m">>
HostAcmePort ==
    <<"a","c","m","e",".","e","x","a","m","p","l","e",".","c","o","m",":","8","0","8","0">>
HostNoSubdomain == <<".","e","x","a","m","p","l","e",".","c","o","m">>
HostLocal == <<"l","o","c","a","l","h","o","s","t",":","1","0","0","0","0">>
HostPortInLabel ==
    <<"t","e","n","a","n","t","1",":","8","0",".","e","x","a","m","p","l","e",".","c","o","m">>

RequestHeader(s, a, t) == [shard |-> s, authority |-> a, tenant |-> t]

\* The requests of the README's walk-through: by Host, by X-Tenant-ID, an
\* unknown tenant, a host without subdomain, an empty tenant header, a
\* request that carries X-SHARD-ID already, and requests without the headers;
\* and a host whose first label carries a port.
Requests ==
    { RequestHeader(NoHeader, HostTenant1, NoHeader),
      RequestHeader(NoHeader, HostAcmePort, NoHeader),
      RequestHeader(NoHeader, HostLocal, "tenant1"),
      RequestHeader(NoHeader, HostLocal, "missing"),
      RequestHeader(NoHeader, HostNoSubdomain, NoHeader),
      RequestHeader(NoHeader, HostPortInLabel, NoHeader),
      RequestHeader(NoHeader, HostLocal, ""),
      RequestHeader("existing-shard", HostTenant1, "tenant1"),
      RequestHeader(NoHeader, NoAuthority, NoHeader) }

\* TenantExtractionMode takes any string of the configuration.
Modes == {"subdomain", "header", "path"}

ErrExtract == "unable to extract tenant from host"
ErrMode == "unsupported tenant extraction mode"

\* strings.Split(s, sep) for a separator of one character.
RECURSIVE Split(_, _)
Split(s, sep) ==
    IF \E i \in 1..Len(s) : s[i] = sep
    THEN LET i == CHOOSE n \in 1..Len(s) :
                      s[n] = sep /\ \A m \in 1..(n - 1) : s[m] # sep
         IN  <<SubSeq(s, 1, i - 1)>> \o Split(SubSeq(s, i + 1, Len(s)), sep)
    ELSE <<s>>

\* The Go string of a sequence of characters.
RECURSIVE String(_)
String(s) == IF s = <<>> THEN "" ELSE Head(s) \o String(Tail(s))

\* Mutant: a first label that carries a port is an error.
extractTenantFromHost_RejectsPort(cf, host) ==
    IF cf.TenantExtractionMode = "subdomain"
    THEN LET parts == Split(host, ".") IN
         IF Len(parts) >= 2 /\ Len(Split(parts[1], ":")) = 1 /\ parts[1] # <<>>
         THEN [tenant |-> String(parts[1]), err |-> NilErr]
         ELSE [tenant |-> "", err |-> ErrExtract]
    ELSE [tenant |-> "", err |-> ErrMode]

\* extractTenantFromHost: the first label of the host, without a port.
extractTenantFromHost(cf, host) ==
    IF cf.TenantExtractionMode = "subdomain"
    THEN LET parts == Split(host, ".") IN
         IF Len(parts) >= 2 /\ Split(parts[1], ":")[1] # <<>>
         THEN [tenant |-> String(Split(parts[1], ":")[1]), err |-> NilErr]
         ELSE [tenant |-> "", err |-> ErrExtract]
    ELSE [tenant |-> "", err |-> ErrMode]

\* Mutant: X-SHARD-ID on the request is not looked at.
decodeTenant_IgnoresShardHeader(cf, h) ==
    IF cf.TenantExtractionMode = "header"
    THEN IF h.tenant = NoHeader \/ h.tenant = "" THEN [to |-> "continue", tenant |-> ""]
         ELSE [to |-> "lookup", tenant |-> h.tenant]
    ELSE IF h.authority = NoAuthority THEN [to |-> "continue", tenant |-> ""]
    ELSE LET x == extractTenantFromHost(cf, h.authority) IN
         IF x.err # NilErr \/ x.tenant = "" THEN [to |-> "continue", tenant |-> ""]
         ELSE [to |-> "lookup", tenant |-> x.tenant]

\* Mutant: the test for an empty tenantID is missing.
decodeTenant_LooksUpEmpty(cf, h) ==
    IF h.shard # NoHeader THEN [to |-> "continue", tenant |-> ""]
    ELSE IF cf.TenantExtractionMode = "header"
    THEN IF h.tenant = NoHeader THEN [to |-> "continue", tenant |-> ""]
         ELSE [to |-> "lookup", tenant |-> h.tenant]
    ELSE IF h.authority = NoAuthority THEN [to |-> "continue", tenant |-> ""]
    ELSE LET x == extractTenantFromHost(cf, h.authority) IN
         IF x.err # NilErr THEN [to |-> "continue", tenant |-> ""]
         ELSE [to |-> "lookup", tenant |-> x.tenant]

\* DecodeHeaders up to the call of orchestratedLookup: "continue" for the
\* early returns, else "lookup" with the tenant.
decodeTenant(cf, h) ==
    IF h.shard # NoHeader THEN [to |-> "continue", tenant |-> ""]
    ELSE IF cf.TenantExtractionMode = "header"
    THEN IF h.tenant = NoHeader THEN [to |-> "continue", tenant |-> ""]
         ELSE IF h.tenant = "" THEN [to |-> "continue", tenant |-> ""]
         ELSE [to |-> "lookup", tenant |-> h.tenant]
    ELSE IF h.authority = NoAuthority THEN [to |-> "continue", tenant |-> ""]
    ELSE LET x == extractTenantFromHost(cf, h.authority) IN
         IF x.err # NilErr THEN [to |-> "continue", tenant |-> ""]
         ELSE IF x.tenant = "" THEN [to |-> "continue", tenant |-> ""]
         ELSE [to |-> "lookup", tenant |-> x.tenant]

\* A stream: the request headers DecodeHeaders was given and left, what
\* its orchestratedLookup returned ("" without one, a shard, "error"), its
\* status, the X-SHARD-ID EncodeHeaders has set and its status.
NoRequest == RequestHeader(NoHeader, NoAuthority, NoHeader)
NoStream ==
    [phase |-> "new", request |-> NoRequest, header |-> NoRequest,
     lookup |-> "", decodeStatus |-> "", response |-> NoHeader, encodeStatus |-> ""]

NoLast == [tenant |-> "", shard |-> ""]
Last(t, r) == IF r.err = NilErr THEN [tenant |-> t, shard |-> r.shard] ELSE NoLast

---------------------------------------------------------------------------
(* Initial state: a mapping document, a configuration as Parse builds it,  *)
(* Redis cold or holding an empty string under one key, no filter built.   *)

DefaultMemoryCacheSize == 1000
DefaultTenantHeaderName == "X-Tenant-ID"
DefaultS3Region == "us-east-1"
DefaultRedisTimeout == 2   \* 2 * time.Second, in seconds
DefaultS3Timeout == 5      \* 5 * time.Second, in seconds

---------------------------------------------------------------------------
(* parser.Parse: the values of the TypedStruct are strings, numbers        *)
(* (float64, here in tenths) or missing.                                   *)

Missing == [kind |-> "missing", str |-> "", num |-> 0]
Str(x) == [kind |-> "string", str |-> x, num |-> 0]
Num(tenths) == [kind |-> "number", str |-> "", num |-> tenths]

\* int(num) of a float64: the fraction is cut off, towards zero.
int(tenths) == IF tenths >= 0 THEN tenths \div 10 ELSE -((-tenths) \div 10)

\* time.ParseDuration on the strings of the configurations, in seconds.
ParseDuration(x) ==
    CASE x = "5m"  -> [d |-> 300, ok |-> TRUE]
      [] x = "10m" -> [d |-> 600, ok |-> TRUE]
      [] x = "2s"  -> [d |-> 2, ok |-> TRUE]
      [] x = "5s"  -> [d |-> 5, ok |-> TRUE]
      [] x = "0s"  -> [d |-> 0, ok |-> TRUE]
      [] OTHER     -> [d |-> 0, ok |-> FALSE]

RawConfig(bucket, key, addr, size, mode) ==
    [s3_bucket |-> bucket, s3_key |-> key, s3_region |-> Missing,
     s3_endpoint |-> Missing, redis_addr |-> addr, redis_password |-> Missing,
     redis_db |-> Missing, redis_key_prefix |-> Missing,
     memory_cache_size |-> size, redis_ttl |-> Missing,
     tenant_extraction_mode |-> mode, tenant_header_name |-> Missing,
     redis_timeout |-> Missing, s3_timeout |-> Missing]

NoRaw == RawConfig(Missing, Missing, Missing, Missing, Missing)

\* &PluginConfig{}: every field at its zero value.
ZeroConfig ==
    [S3Bucket |-> "", S3Key |-> "", S3Region |-> "", S3Endpoint |-> "",
     RedisAddr |-> "", RedisPassword |-> "", RedisDB |-> 0,
     RedisKeyPrefix |-> "", MemoryCacheSize |-> 0, RedisTTL |-> 0,
     TenantExtractionMode |-> "", TenantHeaderName |-> "",
     RedisTimeout |-> 0, S3Timeout |-> 0]

\* Mutant: a required field that is missing is let through.
requiredString_AllowsMissing(x, name) ==
    IF x.kind \in {"missing", "string"} THEN NilErr
    ELSE name \o " must be a string"

\* A field that must be there and be a string.
requiredString(x, name) ==
    IF x.kind = "missing" THEN "missing " \o name
    ELSE IF x.kind # "string" THEN name \o " must be a string"
    ELSE NilErr

\* A field that is a duration in a string when it is there.
optionalDuration(x, name) ==
    IF x.kind = "missing" THEN NilErr
    ELSE IF x.kind # "string" THEN name \o " must be a string duration"
    ELSE IF ~ParseDuration(x.str).ok THEN "invalid " \o name \o " format"
    ELSE NilErr

\* The errors of Parse, in the order it tests the fields.
parseErrors(v) ==
    << requiredString(v.s3_bucket, "s3_bucket"),
       requiredString(v.s3_key, "s3_key"),
       IF v.s3_region.kind \in {"missing", "string"} THEN NilErr
       ELSE "s3_region must be a string",
       IF v.s3_endpoint.kind \in {"missing", "string"} THEN NilErr
       ELSE "s3_endpoint must be a string",
       requiredString(v.redis_addr, "redis_addr"),
       IF v.redis_db.kind \in {"missing", "number"} THEN NilErr
       ELSE "redis_db must be a number",
       IF v.memory_cache_size.kind \in {"missing", "number"} THEN NilErr
       ELSE "memory_cache_size must be a number",
       optionalDuration(v.redis_ttl, "redis_ttl"),
       IF v.tenant_extraction_mode.kind \in {"missing", "string"} THEN NilErr
       ELSE "tenant_extraction_mode must be a string",
       optionalDuration(v.redis_timeout, "redis_timeout"),
       optionalDuration(v.s3_timeout, "s3_timeout") >>

RECURSIVE firstError(_)
firstError(es) ==
    IF es = <<>> THEN NilErr
    ELSE IF Head(es) # NilErr THEN Head(es)
    ELSE firstError(Tail(es))

\* Parse: (conf, err); a field that is missing gets its default, a
\* redis_key_prefix or tenant_header_name that is no string stays empty.
Parse(v) ==
    LET err == firstError(parseErrors(v)) IN
    IF err # NilErr THEN [conf |-> ZeroConfig, err |-> err]
    ELSE [err |-> NilErr,
          conf |->
            [S3Bucket |-> v.s3_bucket.str,
             S3Key |-> v.s3_key.str,
             S3Region |-> IF v.s3_region.kind = "missing"
                          THEN DefaultS3Region ELSE v.s3_region.str,
             S3Endpoint |-> v.s3_endpoint.str,
             RedisAddr |-> v.redis_addr.str,
             RedisPassword |-> v.redis_password.str,
             RedisDB |-> int(v.redis_db.num),
             RedisKeyPrefix |-> IF v.redis_key_prefix.kind = "missing"
                                THEN DefaultRedisKeyPrefix ELSE v.redis_key_prefix.str,
             MemoryCacheSize |-> IF v.memory_cache_size.kind = "missing"
                                 THEN DefaultMemoryCacheSize
                                 ELSE int(v.memory_cache_size.num),
             RedisTTL |-> IF v.redis_ttl.kind = "missing"
                          THEN DefaultRedisTTL ELSE ParseDuration(v.redis_ttl.str).d,
             TenantExtractionMode |->
                 IF v.tenant_extraction_mode.kind = "missing"
                 THEN "subdomain" ELSE v.tenant_extraction_mode.str,
             TenantHeaderName |-> IF v.tenant_header_name.kind = "missing"
                                  THEN DefaultTenantHeaderName
                                  ELSE v.tenant_header_name.str,
             RedisTimeout |-> IF v.redis_timeout.kind = "missing"
                              THEN DefaultRedisTimeout
                              ELSE ParseDuration(v.redis_timeout.str).d,
             S3Timeout |-> IF v.s3_timeout.kind = "missing"
                           THEN DefaultS3Timeout
                           ELSE ParseDuration(v.s3_timeout.str).d]]

\* Mutant: Merge writes the child's values into the parent and returns it.
Merge_InPlace(parent, child) ==
    LET new == [fld \in DOMAIN parent |->
                   IF child[fld] # ZeroConfig[fld] THEN child[fld] ELSE parent[fld]]
    IN [parent |-> new, child |-> child, merged |-> new]

\* Merge: a copy of the parent in which every field the child holds a
\* non-zero value for is the child's; parent and child as Merge leaves them.
Merge(parent, child) ==
    [parent |-> parent,
     child |-> child,
     merged |->
       [S3Bucket |-> IF child.S3Bucket # "" THEN child.S3Bucket ELSE parent.S3Bucket,
        S3Key |-> IF child.S3Key # "" THEN child.S3Key ELSE parent.S3Key,
        S3Region |-> IF child.S3Region # "" THEN child.S3Region ELSE parent.S3Region,
        S3Endpoint |-> IF child.S3Endpoint # ""
                       THEN child.S3Endpoint ELSE parent.S3Endpoint,
        RedisAddr |-> IF child.RedisAddr # "" THEN child.RedisAddr ELSE parent.RedisAddr,
        RedisPassword |-> IF child.RedisPassword # ""
                          THEN child.RedisPassword ELSE parent.RedisPassword,
        RedisDB |-> IF child.RedisDB # 0 THEN child.RedisDB ELSE parent.RedisDB,
        RedisKeyPrefix |-> IF child.RedisKeyPrefix # ""
                           THEN child.RedisKeyPrefix ELSE parent.RedisKeyPrefix,
        MemoryCacheSize |-> IF child.MemoryCacheSize # 0
                            THEN child.MemoryCacheSize ELSE parent.MemoryCacheSize,
        RedisTTL |-> IF child.RedisTTL # 0 THEN child.RedisTTL ELSE parent.RedisTTL,
        TenantExtractionMode |-> IF child.TenantExtractionMode # ""
                                 THEN child.TenantExtractionMode
                                 ELSE parent.TenantExtractionMode,
        TenantHeaderName |-> IF child.TenantHeaderName # ""
                             THEN child.TenantHeaderName
                             ELSE parent.TenantHeaderName,
        RedisTimeout |-> IF child.RedisTimeout # 0
                         THEN child.RedisTimeout ELSE parent.RedisTimeout,
        S3Timeout |-> IF child.S3Timeout # 0
                      THEN child.S3Timeout ELSE parent.S3Timeout]]

\* The configurations given to Parse: the required fields there or not,
\* cache sizes around zero, extraction modes known and unknown.
RequiredFieldConfigs ==
    { RawConfig(b, k, a, n, m) :
        b \in {Missing, Str("tenant-mappings"), Num(10)},
        k \in {Missing, Str("mappings.json"), Num(10)},
        a \in {Missing, Str("redis:6379"), Num(10)},
        n \in {Missing, Str("100"), Num(-10), Num(0), Num(5), Num(20)},
        m \in {Missing, Num(10), Str("subdomain"), Str("header"), Str("path")} }

\* The required fields with the options there or not, one by one, some of
\* them with a value of the wrong type or a duration that does not parse.
OptionConfigs ==
    { [RawConfig(Str("tenant-mappings"), Str("mappings.json"), Str("redis:6379"), n, m)
          EXCEPT !.s3_region = r, !.redis_key_prefix = p, !.redis_ttl = ttl,
                 !.tenant_header_name = h, !.redis_timeout = rt, !.s3_timeout = st] :
        r \in {Missing, Str("eu-west-1")},
        p \in {Missing, Str("other:"), Num(10)},
        n \in {Missing, Num(20), Num(25)},
        ttl \in {Missing, Str("10m"), Str("abc")},
        m \in {Missing, Str("header")},
        h \in {Missing, Str("X-Org"), Num(10)},
        rt \in {Missing, Str("5s")},
        st \in {Missing, Str("2s"), Num(10)} }

RawConfigs == RequiredFieldConfigs \cup OptionConfigs

\* The configurations of the HTTP runs: every extraction mode, the rest as
\* Parse defaults it.
HttpConfigs ==
    { [MemoryCacheSize |-> DefaultMemoryCacheSize,
       RedisKeyPrefix |-> DefaultRedisKeyPrefix, RedisTTL |-> DefaultRedisTTL,
       TenantExtractionMode |-> m, TenantHeaderName |-> DefaultTenantHeaderName]
      : m \in Modes }

Configs ==
    { [MemoryCacheSize |-> n, RedisKeyPrefix |-> DefaultRedisKeyPrefix,
       RedisTTL |-> DefaultRedisTTL] : n \in 1..MaxCacheSize }

RedisCold == [k \in RedisKeys |-> Absent]

\* A goroutine that is in neither lookupInMemoryCache nor cacheInMemory.
IdleRoutine ==
    [pc |-> "idle", op |-> "", tenant |-> "", value |-> "", snap |-> <<>>,
     found |-> FALSE, got |-> "", stableFound |-> FALSE, stableGot |-> ""]

\* f.mu and the lock of lru.Cache are free, the cache is empty; stable is
\* the cache as the last Get or Add that completed left it.
NoLocks ==
    [readers |-> {}, writer |-> 0, lib |-> 0, cache |-> <<>>, stable |-> <<>>,
     mutating |-> {}, g |-> [r \in ConcFilters |-> IdleRoutine]]

\* No filter instance has been built.
InitFilters ==
    /\ created = [f \in ConcFilters |-> FALSE]
    /\ memoryCache = [f \in ConcFilters |-> <<>>]
    /\ currentShardID = [f \in ConcFilters |-> ""]
    /\ pc = [f \in ConcFilters |-> "idle"]
    /\ tenantID = [f \in ConcFilters |-> ""]
    /\ shardID = [f \in ConcFilters |-> ""]
    /\ ret = [f \in ConcFilters |-> NoFilterRet]
    /\ calls = [f \in ConcFilters |-> {}]
    /\ lastFound = NoLast
    /\ lruLog = [f \in ConcFilters |-> NoLog]
    /\ stream = [f \in ConcFilters |-> NoStream]
    /\ locks = NoLocks

\* The configuration has been parsed without an error.
Loaded ==
    [raw |-> NoRaw, parsed |-> TRUE, err |-> NilErr, panic |-> "",
     child |-> NoRaw, childParsed |-> FALSE, parentConf |-> ZeroConfig,
     childConf |-> ZeroConfig, merged |-> FALSE]

Init ==
    /\ table \in Tables
    /\ conf \in Configs
    /\ redis \in { RedisCold,
                   [RedisCold EXCEPT ![RedisKey(DefaultRedisKeyPrefix, "acme")] =
                        Entry("", DefaultRedisTTL)] }
    /\ InitFilters
    /\ loader = Loaded

---------------------------------------------------------------------------
(* Actions *)

\* filterFactory: a new instance with its own lru.New(MemoryCacheSize).
filterFactory(f) ==
    /\ ~created[f]
    /\ conf.MemoryCacheSize > 0
    /\ created' = [created EXCEPT ![f] = TRUE]
    /\ memoryCache' = [memoryCache EXCEPT ![f] = <<>>]
    /\ currentShardID' = [currentShardID EXCEPT ![f] = ""]
    /\ UNCHANGED <<table, conf, redis, pc, tenantID, shardID, ret, calls, lastFound>>

\* OnDestroy: the stream ended, the instance and its cache are dropped.
OnDestroy(f) ==
    /\ created[f]
    /\ pc[f] = "idle"
    /\ created' = [created EXCEPT ![f] = FALSE]
    /\ memoryCache' = [memoryCache EXCEPT ![f] = <<>>]
    /\ currentShardID' = [currentShardID EXCEPT ![f] = ""]
    /\ UNCHANGED <<table, conf, redis, pc, tenantID, shardID, ret, calls, lastFound>>

\* orchestratedLookup(t), tier 1: the memory cache.
LookupMemory(f, t) ==
    /\ created[f]
    /\ pc[f] = "idle"
    /\ LET m == lookupInMemoryCache(memoryCache[f], t) IN
       /\ memoryCache' = [memoryCache EXCEPT ![f] = m.cache]
       /\ tenantID' = [tenantID EXCEPT ![f] = t]
       /\ calls' = [calls EXCEPT ![f] = {}]
       /\ IF m.found
          THEN /\ pc' = [pc EXCEPT ![f] = "done"]
               /\ ret' = [ret EXCEPT ![f] = Found(m.shardID)]
               /\ lastFound' = Last(t, Found(m.shardID))
          ELSE /\ pc' = [pc EXCEPT ![f] = "redis"]
               /\ ret' = [ret EXCEPT ![f] = NoFilterRet]
               /\ lastFound' = NoLast
    /\ UNCHANGED <<table, conf, redis, created, currentShardID, shardID>>

\* Mutant: a failed Redis Get is tried again instead of falling through.
LookupRedis_RetriesOnError(f) ==
    /\ pc[f] = "redis"
    /\ \E fail \in BOOLEAN :
         LET r == lookupInRedisCache(redis, conf, tenantID[f], fail) IN
         /\ calls' = [calls EXCEPT ![f] = @ \cup {r.call}]
         /\ IF redisTier(r) = "return"
            THEN /\ memoryCache' = [memoryCache EXCEPT ![f] =
                        cacheInMemory(@, conf, tenantID[f], r.shardID)]
                 /\ pc' = [pc EXCEPT ![f] = "done"]
                 /\ ret' = [ret EXCEPT ![f] = Found(r.shardID)]
                 /\ lastFound' = Last(tenantID[f], Found(r.shardID))
            ELSE /\ pc' = [pc EXCEPT ![f] = IF r.err # NilErr THEN "redis" ELSE "s3"]
                 /\ UNCHANGED <<memoryCache, ret, lastFound>>
    /\ UNCHANGED <<table, conf, redis, created, currentShardID, tenantID, shardID>>

\* orchestratedLookup, tier 2: Redis; a hit is cached in memory and returned.
LookupRedis(f) ==
    /\ pc[f] = "redis"
    /\ \E fail \in BOOLEAN :
         LET r == lookupInRedisCache(redis, conf, tenantID[f], fail) IN
         /\ calls' = [calls EXCEPT ![f] = @ \cup {r.call}]
         /\ IF redisTier(r) = "return"
            THEN /\ memoryCache' = [memoryCache EXCEPT ![f] =
                        cacheInMemory(@, conf, tenantID[f], r.shardID)]
                 /\ pc' = [pc EXCEPT ![f] = "done"]
                 /\ ret' = [ret EXCEPT ![f] = Found(r.shardID)]
                 /\ lastFound' = Last(tenantID[f], Found(r.shardID))
            ELSE /\ pc' = [pc EXCEPT ![f] = "s3"]
                 /\ UNCHANGED <<memoryCache, ret, lastFound>>
    /\ UNCHANGED <<table, conf, redis, created, currentShardID, tenantID, shardID>>

\* orchestratedLookup, tier 3: the S3 document.
LookupS3(f) ==
    /\ pc[f] = "s3"
    /\ \E e \in {NilErr} \cup S3Errors :
         LET r == lookupInS3(table, tenantID[f], e) IN
         /\ calls' = [calls EXCEPT ![f] =
                          @ \cup {IF e = NilErr THEN "s3.GetObject:ok" ELSE "s3.GetObject:err"}]
         /\ CASE s3Tier(r) = "error" ->
                   /\ pc' = [pc EXCEPT ![f] = "done"]
                   /\ ret' = [ret EXCEPT ![f] = Failed(r.err)]
                   /\ lastFound' = NoLast
                   /\ UNCHANGED shardID
              [] s3Tier(r) = "cache" ->
                   /\ pc' = [pc EXCEPT ![f] = "cache"]
                   /\ shardID' = [shardID EXCEPT ![f] = r.shardID]
                   /\ UNCHANGED <<ret, lastFound>>
              [] OTHER ->
                   /\ pc' = [pc EXCEPT ![f] = "done"]
                   /\ ret' = [ret EXCEPT ![f] = Failed(ErrNoMapping)]
                   /\ lastFound' = NoLast
                   /\ UNCHANGED shardID
    /\ UNCHANGED <<table, conf, redis, created, memoryCache, currentShardID, tenantID>>

\* Mutant: an error of cacheInRedis is returned instead of logged.
CacheBoth_FailOnSetError(f) ==
    /\ pc[f] = "cache"
    /\ \E fail \in BOOLEAN :
         LET w == cacheInRedis(redis, conf, tenantID[f], shardID[f], fail) IN
         /\ redis' = w.redis
         /\ calls' = [calls EXCEPT ![f] = @ \cup {w.call}]
         /\ IF w.err # NilErr
            THEN /\ ret' = [ret EXCEPT ![f] = Failed(w.err)]
                 /\ lastFound' = NoLast
                 /\ UNCHANGED memoryCache
            ELSE /\ memoryCache' = [memoryCache EXCEPT ![f] =
                        cacheInMemory(@, conf, tenantID[f], shardID[f])]
                 /\ ret' = [ret EXCEPT ![f] = Found(shardID[f])]
                 /\ lastFound' = Last(tenantID[f], Found(shardID[f]))
    /\ pc' = [pc EXCEPT ![f] = "done"]
    /\ UNCHANGED <<table, conf, created, currentShardID, tenantID, shardID>>

\* orchestratedLookup, write-back: Redis (an error is only logged), then memory.
CacheBoth(f) ==
    /\ pc[f] = "cache"
    /\ \E fail \in BOOLEAN :
         LET w == cacheInRedis(redis, conf, tenantID[f], shardID[f], fail) IN
         /\ redis' = w.redis
         /\ calls' = [calls EXCEPT ![f] = @ \cup {w.call}]
    /\ memoryCache' = [memoryCache EXCEPT ![f] =
            cacheInMemory(@, conf, tenantID[f], shardID[f])]
    /\ pc' = [pc EXCEPT ![f] = "done"]
    /\ ret' = [ret EXCEPT ![f] = Found(shardID[f])]
    /\ lastFound' = Last(tenantID[f], Found(shardID[f]))
    /\ UNCHANGED <<table, conf, created, currentShardID, tenantID, shardID>>

\* DecodeHeaders after orchestratedLookup returned: an error leaves
\* currentShardID alone, a shard is stored for the response headers.
Return(f) ==
    /\ pc[f] = "done"
    /\ currentShardID' = [currentShardID EXCEPT ![f] =
            IF ret[f].err # NilErr THEN @ ELSE ret[f].shard]
    /\ pc' = [pc EXCEPT ![f] = "idle"]
    /\ tenantID' = [tenantID EXCEPT ![f] = ""]
    /\ shardID' = [shardID EXCEPT ![f] = ""]
    /\ ret' = [ret EXCEPT ![f] = NoFilterRet]
    /\ calls' = [calls EXCEPT ![f] = {}]
    /\ UNCHANGED <<table, conf, redis, created, memoryCache, lastFound>>

\* Redis drops a key whose TTL ran out.
RedisExpire(k) ==
    /\ redis[k].present
    /\ redis' = [redis EXCEPT ![k] = Absent]
    /\ UNCHANGED <<table, conf, created, memoryCache, currentShardID, pc,
                   tenantID, shardID, ret, calls, lastFound>>

Step(f) ==
    /\ LookupRedis(f) \/ LookupS3(f) \/ CacheBoth(f) \/ Return(f)
    /\ UNCHANGED <<lruLog, stream, loader, locks>>

\* The uses of the memory caches are not logged here, see LruNext.
Next ==
    \/ \E f \in Filters : filterFactory(f) /\ UNCHANGED <<lruLog, stream, loader, locks>>
    \/ \E f \in Filters : OnDestroy(f) /\ UNCHANGED <<lruLog, stream, loader, locks>>
    \/ \E f \in Filters, t \in Tenants : LookupMemory(f, t) /\ UNCHANGED <<lruLog, stream, loader, locks>>
    \/ \E f \in Filters : LookupRedis(f) /\ UNCHANGED <<lruLog, stream, loader, locks>>
    \/ \E f \in Filters : LookupS3(f) /\ UNCHANGED <<lruLog, stream, loader, locks>>
    \/ \E f \in Filters : CacheBoth(f) /\ UNCHANGED <<lruLog, stream, loader, locks>>
    \/ \E f \in Filters : Return(f) /\ UNCHANGED <<lruLog, stream, loader, locks>>
    \/ \E k \in RedisKeys : RedisExpire(k) /\ UNCHANGED <<lruLog, stream, loader, locks>>

Spec == Init /\ [][Next]_vars

\* Every network call carries a deadline (RedisTimeout, S3Timeout), so a
\* lookup that has started takes its next step.
\* The lookups are followed to their return from a cold Redis and a cache
\* of one entry.
LiveInit == Init /\ conf.MemoryCacheSize = 1 /\ redis = RedisCold

FairSpec == LiveInit /\ [][Next]_vars /\ \A f \in Filters : WF_vars(Step(f))

---------------------------------------------------------------------------
(* One instance at a time, serving the tenants of the README's document,   *)
(* with every use of its memory cache logged: lookupInMemoryCache's Get    *)
(* when it hits, cacheInMemory's Add.                                      *)

LruTable ==
    << TenantShardMapping("tenant1", "shard-a"),
       TenantShardMapping("tenant2", "shard-b"),
       TenantShardMapping("acme", "shard-c") >>

lruKeys(c) == {c[i].key : i \in 1..Len(c)}

seqWithout(q, t) == SelectSeq(q, LAMBDA x : x # t)

\* A Get of t that hit; oldest: t was the least recently used of several keys.
LogHit(l, t) ==
    [order   |-> <<t>> \o seqWithout(l.order, t),
     evicted |-> "",
     last    |-> [kind |-> "hit", tenant |-> t,
                  oldest |-> Len(l.order) > 1 /\ l.order[Len(l.order)] = t],
     prev    |-> l.last]

\* An Add of t that took the keys of the cache from before to after.
LogAdd(l, t, before, after) ==
    [order   |-> SelectSeq(<<t>> \o seqWithout(l.order, t), LAMBDA x : x \in after),
     evicted |-> IF before \subseteq after THEN ""
                 ELSE CHOOSE k \in before \ after : TRUE,
     last    |-> [kind |-> "add", tenant |-> t, oldest |-> FALSE],
     prev    |-> l.last]

LruInit ==
    /\ table = LruTable
    /\ conf \in Configs
    /\ redis = RedisCold
    /\ InitFilters
    /\ loader = Loaded

LruFactory(f) ==
    /\ \A g \in Filters : ~created[g]
    /\ filterFactory(f)
    /\ UNCHANGED <<stream, loader, locks>>
    /\ lruLog' = [lruLog EXCEPT ![f] = NoLog]

LruDestroy(f) ==
    /\ OnDestroy(f)
    /\ UNCHANGED <<stream, loader, locks>>
    /\ lruLog' = [lruLog EXCEPT ![f] = NoLog]

LruLookupMemory(f, t) ==
    /\ LookupMemory(f, t)
    /\ UNCHANGED <<stream, loader, locks>>
    /\ lruLog' = [lruLog EXCEPT ![f] =
           IF lruContains(memoryCache[f], t) THEN LogHit(@, t) ELSE @]

LruLookupRedis(f) ==
    /\ LookupRedis(f)
    /\ UNCHANGED <<stream, loader, locks>>
    /\ lruLog' = [lruLog EXCEPT ![f] =
           IF pc'[f] = "done"
           THEN LogAdd(@, tenantID[f], lruKeys(memoryCache[f]), lruKeys(memoryCache'[f]))
           ELSE @]

LruCacheBoth(f) ==
    /\ CacheBoth(f)
    /\ UNCHANGED <<stream, loader, locks>>
    /\ lruLog' = [lruLog EXCEPT ![f] =
           LogAdd(@, tenantID[f], lruKeys(memoryCache[f]), lruKeys(memoryCache'[f]))]

LruNext ==
    \/ \E f \in Filters : LruFactory(f)
    \/ \E f \in Filters : LruDestroy(f)
    \/ \E f \in Filters, t \in AllTenants : LruLookupMemory(f, t)
    \/ \E f \in Filters : LruLookupRedis(f)
    \/ \E f \in Filters : LookupS3(f) /\ UNCHANGED <<lruLog, stream, loader, locks>>
    \/ \E f \in Filters : LruCacheBoth(f)
    \/ \E f \in Filters : Return(f) /\ UNCHANGED <<lruLog, stream, loader, locks>>
    \/ \E k \in RedisKeys : RedisExpire(k) /\ UNCHANGED <<lruLog, stream, loader, locks>>

LruSpec == LruInit /\ [][LruNext]_vars

---------------------------------------------------------------------------
(* Concurrent streams: the lookups of several instances interleave at      *)
(* their network calls, over one document and a Redis that starts cold and *)
(* is written by the lookups only.                                         *)

ConcInit ==
    /\ table \in Tables
    /\ conf \in Configs
    /\ redis = RedisCold
    /\ InitFilters
    /\ loader = Loaded

ConcNext ==
    \/ \E f \in ConcFilters : filterFactory(f) /\ UNCHANGED <<lruLog, stream, loader, locks>>
    \/ \E f \in ConcFilters : OnDestroy(f) /\ UNCHANGED <<lruLog, stream, loader, locks>>
    \/ \E f \in ConcFilters, t \in Tenants : LookupMemory(f, t) /\ UNCHANGED <<lruLog, stream, loader, locks>>
    \/ \E f \in ConcFilters : LookupRedis(f) /\ UNCHANGED <<lruLog, stream, loader, locks>>
    \/ \E f \in ConcFilters : LookupS3(f) /\ UNCHANGED <<lruLog, stream, loader, locks>>
    \/ \E f \in ConcFilters : CacheBoth(f) /\ UNCHANGED <<lruLog, stream, loader, locks>>
    \/ \E f \in ConcFilters : Return(f) /\ UNCHANGED <<lruLog, stream, loader, locks>>
    \/ \E k \in RedisKeys : RedisExpire(k) /\ UNCHANGED <<lruLog, stream, loader, locks>>

ConcSpec == ConcInit /\ [][ConcNext]_vars

---------------------------------------------------------------------------
(* The HTTP filter: Envoy builds one instance for a stream, calls          *)
(* DecodeHeaders on the request headers, EncodeHeaders on the response     *)
(* headers and OnDestroy at the end of the stream.                         *)

HttpInit ==
    /\ table \in Tables
    /\ conf \in HttpConfigs
    /\ redis \in { RedisCold,
                   [RedisCold EXCEPT ![RedisKey(DefaultRedisKeyPrefix, "acme")] =
                        Entry("", DefaultRedisTTL)] }
    /\ InitFilters
    /\ loader = Loaded

HttpFactory(f) ==
    /\ filterFactory(f)
    /\ stream' = [stream EXCEPT ![f] = NoStream]
    /\ UNCHANGED <<lruLog, loader, locks>>

HttpDestroy(f) ==
    /\ OnDestroy(f)
    /\ stream' = [stream EXCEPT ![f] = NoStream]
    /\ UNCHANGED <<lruLog, loader, locks>>

\* DecodeHeaders(h): the early returns, or the start of orchestratedLookup.
DecodeHeaders(f, h) ==
    /\ created[f]
    /\ pc[f] = "idle"
    /\ stream[f].phase = "new"
    /\ LET d == decodeTenant(conf, h) IN
       IF d.to = "continue"
       THEN /\ stream' = [stream EXCEPT ![f] =
                   [@ EXCEPT !.phase = "decoded", !.request = h, !.header = h,
                             !.decodeStatus = "Continue"]]
            /\ UNCHANGED <<table, conf, redis, created, memoryCache, currentShardID,
                           pc, tenantID, shardID, ret, calls, lastFound>>
       ELSE /\ LookupMemory(f, d.tenant)
            /\ stream' = [stream EXCEPT ![f] =
                   [@ EXCEPT !.phase = "decoding", !.request = h, !.header = h]]
    /\ UNCHANGED <<lruLog, loader, locks>>

\* Mutant: a failed lookup ends the request with a local reply.
DecodeReturn_FailsRequest(f) ==
    /\ Return(f)
    /\ stream' = [stream EXCEPT ![f] =
           [@ EXCEPT !.phase = "decoded",
                     !.decodeStatus = IF ret[f].err # NilErr THEN "LocalReply" ELSE "Continue",
                     !.lookup = IF ret[f].err # NilErr THEN "error" ELSE ret[f].shard]]
    /\ UNCHANGED <<lruLog, loader, locks>>

\* DecodeHeaders after orchestratedLookup: Continue with or without a shard.
DecodeReturn(f) ==
    /\ Return(f)
    /\ stream' = [stream EXCEPT ![f] =
           [@ EXCEPT !.phase = "decoded", !.decodeStatus = "Continue",
                     !.lookup = IF ret[f].err # NilErr THEN "error" ELSE ret[f].shard]]
    /\ UNCHANGED <<lruLog, loader, locks>>

\* Mutant: X-SHARD-ID is set whatever currentShardID holds.
EncodeHeaders_AlwaysSets(f) ==
    /\ created[f]
    /\ pc[f] = "idle"
    /\ stream[f].phase \in {"new", "decoded"}
    /\ stream' = [stream EXCEPT ![f] =
           [@ EXCEPT !.phase = "encoded", !.encodeStatus = "Continue",
                     !.response = currentShardID[f]]]
    /\ UNCHANGED <<table, conf, redis, created, memoryCache, currentShardID,
                   pc, tenantID, shardID, ret, calls, lastFound, lruLog, loader, locks>>

\* EncodeHeaders: X-SHARD-ID is set from currentShardID when it is not empty.
EncodeHeaders(f) ==
    /\ created[f]
    /\ pc[f] = "idle"
    /\ stream[f].phase \in {"new", "decoded"}
    /\ stream' = [stream EXCEPT ![f] =
           [@ EXCEPT !.phase = "encoded", !.encodeStatus = "Continue",
                     !.response = IF currentShardID[f] # ""
                                  THEN currentShardID[f] ELSE @]]
    /\ UNCHANGED <<table, conf, redis, created, memoryCache, currentShardID,
                   pc, tenantID, shardID, ret, calls, lastFound, lruLog, loader, locks>>

HttpNext ==
    \/ \E f \in Filters : HttpFactory(f)
    \/ \E f \in Filters : HttpDestroy(f)
    \/ \E f \in Filters, h \in Requests : DecodeHeaders(f, h)
    \/ \E f \in Filters : LookupRedis(f) /\ UNCHANGED <<lruLog, stream, loader, locks>>
    \/ \E f \in Filters : LookupS3(f) /\ UNCHANGED <<lruLog, stream, loader, locks>>
    \/ \E f \in Filters : CacheBoth(f) /\ UNCHANGED <<lruLog, stream, loader, locks>>
    \/ \E f \in Filters : DecodeReturn(f)
    \/ \E f \in Filters : EncodeHeaders(f)
    \/ \E k \in RedisKeys : RedisExpire(k) /\ UNCHANGED <<lruLog, stream, loader, locks>>

HttpSpec == HttpInit /\ [][HttpNext]_vars

---------------------------------------------------------------------------
(* Loading: Envoy gives the configuration to Parse and, when Parse returns *)
(* no error, its result to filterFactory for every stream.                 *)

LoadInit ==
    /\ table = LruTable
    /\ conf = ZeroConfig
    /\ redis = RedisCold
    /\ InitFilters
    /\ loader \in { [Loaded EXCEPT !.raw = v, !.parsed = FALSE] : v \in RawConfigs }

LoadParse ==
    /\ ~loader.parsed
    /\ conf' = Parse(loader.raw).conf
    /\ loader' = [loader EXCEPT !.parsed = TRUE, !.err = Parse(loader.raw).err]
    /\ UNCHANGED <<table, redis, created, memoryCache, currentShardID, pc,
                   tenantID, shardID, ret, calls, lastFound, lruLog, stream, locks>>

\* filterFactory on a configuration Parse returned.
LoadFactory(f) ==
    /\ loader.parsed /\ loader.err = NilErr /\ loader.panic = ""
    /\ filterFactory(f)
    /\ UNCHANGED <<lruLog, stream, loader, locks>>

\* filterFactory panics when lru.New returns its error, for a size <= 0.
LoadFactoryPanics(f) ==
    /\ loader.parsed /\ loader.err = NilErr /\ loader.panic = ""
    /\ ~created[f]
    /\ conf.MemoryCacheSize <= 0
    /\ loader' = [loader EXCEPT !.panic = "failed to create memory cache"]
    /\ UNCHANGED <<table, conf, redis, created, memoryCache, currentShardID, pc,
                   tenantID, shardID, ret, calls, lastFound, lruLog, stream, locks>>

LoadNext ==
    \/ LoadParse
    \/ \E f \in Filters : LoadFactory(f)
    \/ \E f \in Filters : LoadFactoryPanics(f)
    \/ \E f \in Filters : OnDestroy(f) /\ UNCHANGED <<lruLog, stream, loader, locks>>

LoadSpec == LoadInit /\ [][LoadNext]_vars

---------------------------------------------------------------------------
(* Inheritance: Envoy gives the listener's configuration and a route's to   *)
(* Parse, the two results to Merge, and Merge's result to filterFactory for *)
(* the streams of that route.                                              *)

\* A listener's or a route's configuration: the required fields and some of
\* the options.
MergeConfigs ==
    { [RawConfig(Str("tenant-mappings"), Str("mappings.json"), Str("redis:6379"),
                 n, Missing)
          EXCEPT !.s3_endpoint = e, !.redis_key_prefix = q, !.redis_ttl = ttl] :
        e \in {Missing, Str("http://minio:9000")},
        q \in {Missing, Str(OtherRedisKeyPrefix)},
        n \in {Missing, Num(20)},
        ttl \in {Missing, Str("10m")} }

\* The requests of a route's streams.
MergeRequests ==
    { RequestHeader(NoHeader, HostTenant1, NoHeader),
      RequestHeader(NoHeader, HostNoSubdomain, NoHeader) }

MergeInit ==
    /\ table = LruTable
    /\ conf = ZeroConfig
    /\ redis = RedisCold
    /\ InitFilters
    /\ loader \in { [Loaded EXCEPT !.raw = v, !.child = c, !.parsed = FALSE]
                     : v \in MergeConfigs, c \in MergeConfigs }

\* Parse on the listener's configuration.
ParseParent ==
    /\ ~loader.parsed
    /\ loader' = [loader EXCEPT !.parsed = TRUE,
                                !.err = Parse(loader.raw).err,
                                !.parentConf = Parse(loader.raw).conf]
    /\ UNCHANGED <<table, conf, redis, created, memoryCache, currentShardID, pc,
                   tenantID, shardID, ret, calls, lastFound, lruLog, stream, locks>>

\* Parse on the route's configuration.
ParseChild ==
    /\ ~loader.childParsed
    /\ Parse(loader.child).err = NilErr
    /\ loader' = [loader EXCEPT !.childParsed = TRUE,
                                !.childConf = Parse(loader.child).conf]
    /\ UNCHANGED <<table, conf, redis, created, memoryCache, currentShardID, pc,
                   tenantID, shardID, ret, calls, lastFound, lruLog, stream, locks>>

\* Merge(parent, child): its result is the configuration of the route.
MergeConfig ==
    /\ loader.parsed /\ loader.err = NilErr
    /\ loader.childParsed
    /\ ~loader.merged
    /\ LET m == Merge(loader.parentConf, loader.childConf) IN
       /\ conf' = m.merged
       /\ loader' = [loader EXCEPT !.merged = TRUE, !.parentConf = m.parent,
                                   !.childConf = m.child]
    /\ UNCHANGED <<table, redis, created, memoryCache, currentShardID, pc,
                   tenantID, shardID, ret, calls, lastFound, lruLog, stream, locks>>

MergeNext ==
    \/ ParseParent
    \/ ParseChild
    \/ MergeConfig
    \/ \E f \in Filters : loader.merged /\ HttpFactory(f)
    \/ \E f \in Filters : HttpDestroy(f)
    \/ \E f \in Filters, h \in MergeRequests : DecodeHeaders(f, h)
    \/ \E f \in Filters : LookupRedis(f) /\ UNCHANGED <<lruLog, stream, loader, locks>>
    \/ \E f \in Filters : LookupS3(f) /\ UNCHANGED <<lruLog, stream, loader, locks>>
    \/ \E f \in Filters : CacheBoth(f) /\ UNCHANGED <<lruLog, stream, loader, locks>>
    \/ \E f \in Filters : DecodeReturn(f)
    \/ \E f \in Filters : EncodeHeaders(f)
    \/ \E k \in RedisKeys : RedisExpire(k) /\ UNCHANGED <<lruLog, stream, loader, locks>>

MergeSpec == MergeInit /\ [][MergeNext]_vars

---------------------------------------------------------------------------
(* One filter's cache under goroutines: lookupInMemoryCache takes f.mu for  *)
(* reading and calls Get, cacheInMemory takes f.mu for writing and calls    *)
(* Add; lru.Cache takes its own lock around either. A Get or an Add changes *)
(* the list in two steps, and between them the list is not a cache state.   *)

Routines == ConcFilters

\* What cacheInMemory is called with: the document's shard, or the shard of
\* a document that has changed since.
Puts ==
    { [tenant |-> "tenant1", value |-> "shard-a"],
      [tenant |-> "tenant1", value |-> "shard-b"],
      [tenant |-> "acme", value |-> "shard-c"] }

LockInit ==
    /\ table = LruTable
    /\ conf \in Configs
    /\ redis = RedisCold
    /\ InitFilters
    /\ loader = Loaded

\* Mutant: the list of lru.Cache without the lock around it.
lruLockFree_Unlocked(l) == TRUE

\* The lock of lru.Cache is free.
lruLockFree(l) == l.lib = 0

\* lookupInMemoryCache is called.
CallLookup(r, t) ==
    /\ locks.g[r].pc = "idle"
    /\ locks' = [locks EXCEPT !.g[r] =
                    [IdleRoutine EXCEPT !.pc = "RLock", !.op = "Get",
                                        !.tenant = t]]

\* cacheInMemory is called.
CallCache(r, p) ==
    /\ locks.g[r].pc = "idle"
    /\ locks' = [locks EXCEPT !.g[r] =
                    [IdleRoutine EXCEPT !.pc = "Lock", !.op = "Add",
                                        !.tenant = p.tenant,
                                        !.value = p.value]]

\* f.mu.RLock(): waits for the writer, not for other readers.
RLock(r) ==
    /\ locks.g[r].pc = "RLock"
    /\ locks.writer = 0
    /\ locks' = [locks EXCEPT !.readers = @ \cup {r}, !.g[r].pc = "lib"]

\* f.mu.Lock(): waits for the writer and for every reader.
Lock(r) ==
    /\ locks.g[r].pc = "Lock"
    /\ locks.writer = 0
    /\ locks.readers = {}
    /\ locks' = [locks EXCEPT !.writer = r, !.g[r].pc = "lib"]

\* Get and Add of lru.Cache start by taking the cache's lock.
LibLock(r) ==
    /\ locks.g[r].pc = "lib"
    /\ lruLockFree(locks)
    /\ locks' = [locks EXCEPT !.lib = r,
                              !.g[r].pc = IF locks.g[r].op = "Get"
                                          THEN "read" ELSE "insert"]

\* Get reads the entry and, on a hit, unlinks it from the list.
GetRead(r) ==
    LET me == locks.g[r]
        i == lruIndex(locks.cache, me.tenant) IN
    /\ me.pc = "read"
    /\ locks' =
         [locks EXCEPT
            !.g[r] = [me EXCEPT
                        !.found = i # 0,
                        !.got = lruPeek(locks.cache, me.tenant),
                        !.stableFound = lruContains(locks.stable, me.tenant),
                        !.stableGot = lruPeek(locks.stable, me.tenant),
                        !.snap = locks.cache,
                        !.pc = IF i # 0 THEN "relink" ELSE "libUnlock"],
            !.cache = IF i # 0 THEN lruRemoveAt(locks.cache, i) ELSE @,
            !.mutating = IF i # 0 THEN @ \cup {r} ELSE @]

\* Get links the entry back at the front.
GetRelink(r) ==
    LET me == locks.g[r]
        c == lruGet(me.snap, me.tenant).cache IN
    /\ me.pc = "relink"
    /\ locks' = [locks EXCEPT !.cache = c, !.stable = c,
                              !.mutating = @ \ {r},
                              !.g[r].pc = "libUnlock"]

\* Add pushes the entry to the front, over an entry of the same key.
AddInsert(r) ==
    LET me == locks.g[r] IN
    /\ me.pc = "insert"
    /\ locks' = [locks EXCEPT
                    !.cache = lruAdd_NoEvict(locks.cache, me.tenant, me.value,
                                             conf.MemoryCacheSize),
                    !.mutating = @ \cup {r},
                    !.g[r].snap = locks.cache,
                    !.g[r].pc = "evict"]

\* Add removes the oldest entry when the size is exceeded.
AddEvict(r) ==
    LET me == locks.g[r]
        c == lruAdd(me.snap, me.tenant, me.value, conf.MemoryCacheSize) IN
    /\ me.pc = "evict"
    /\ locks' = [locks EXCEPT !.cache = c, !.stable = c,
                              !.mutating = @ \ {r},
                              !.g[r].pc = "libUnlock"]

\* Get and Add of lru.Cache end by releasing the cache's lock.
LibUnlock(r) ==
    /\ locks.g[r].pc = "libUnlock"
    /\ locks' = [locks EXCEPT !.lib = IF @ = r THEN 0 ELSE @,
                              !.g[r].pc = "unlock"]

\* defer f.mu.RUnlock() / defer f.mu.Unlock(): the function returns.
Unlock(r) ==
    /\ locks.g[r].pc = "unlock"
    /\ locks' = [locks EXCEPT !.readers = @ \ {r},
                              !.writer = IF @ = r THEN 0 ELSE @,
                              !.g[r].pc = "returned"]

\* The caller has taken the result.
Resume(r) ==
    /\ locks.g[r].pc = "returned"
    /\ locks' = [locks EXCEPT !.g[r] = IdleRoutine]

LockUnchanged ==
    UNCHANGED <<table, conf, redis, created, memoryCache, currentShardID, pc,
                tenantID, shardID, ret, calls, lastFound, lruLog, stream,
                loader>>

LockNext ==
    \/ \E r \in Routines, t \in {"tenant1", "acme"} :
           CallLookup(r, t) /\ LockUnchanged
    \/ \E r \in Routines, p \in Puts : CallCache(r, p) /\ LockUnchanged
    \/ \E r \in Routines : RLock(r) /\ LockUnchanged
    \/ \E r \in Routines : Lock(r) /\ LockUnchanged
    \/ \E r \in Routines : LibLock(r) /\ LockUnchanged
    \/ \E r \in Routines : GetRead(r) /\ LockUnchanged
    \/ \E r \in Routines : GetRelink(r) /\ LockUnchanged
    \/ \E r \in Routines : AddInsert(r) /\ LockUnchanged
    \/ \E r \in Routines : AddEvict(r) /\ LockUnchanged
    \/ \E r \in Routines : LibUnlock(r) /\ LockUnchanged
    \/ \E r \in Routines : Unlock(r) /\ LockUnchanged
    \/ \E r \in Routines : Resume(r) /\ LockUnchanged

LockSpec == LockInit /\ [][LockNext]_vars

---------------------------------------------------------------------------
(* One Redis server under two prefixes: the filter is configured with one  *)
(* of them, and the keys under the other belong to someone else.           *)

ForeignShard == "shard-x"

ForeignPrefix(cf) ==
    CHOOSE q \in KeyPrefixes : q # cf.RedisKeyPrefix

PrefixConfigs ==
    { [MemoryCacheSize |-> n, RedisKeyPrefix |-> q, RedisTTL |-> DefaultRedisTTL]
      : n \in 1..MaxCacheSize, q \in KeyPrefixes }

PrefixInit ==
    /\ table = LruTable
    /\ conf \in PrefixConfigs
    /\ redis = [RedisCold EXCEPT ![RedisKey(ForeignPrefix(conf), "tenant1")] =
                    Entry(ForeignShard, DefaultRedisTTL)]
    /\ InitFilters
    /\ loader = Loaded

PrefixSpec == PrefixInit /\ [][Next]_vars

---------------------------------------------------------------------------
(* An outage of S3: every GetObject fails. Redis holds what lookups stored *)
(* before the outage; the memory caches are filled from it.                *)

RedisWarm ==
    [RedisCold EXCEPT
       ![RedisKey(DefaultRedisKeyPrefix, "tenant1")] = Entry("shard-a", DefaultRedisTTL),
       ![RedisKey(DefaultRedisKeyPrefix, "acme")] = Entry("shard-c", DefaultRedisTTL)]

OutageInit ==
    /\ table = LruTable
    /\ conf \in Configs
    /\ redis = RedisWarm
    /\ InitFilters
    /\ loader = Loaded

\* orchestratedLookup, tier 3, while GetObjectWithContext returns an error.
LookupS3Outage(f) ==
    /\ LookupS3(f)
    /\ "s3.GetObject:ok" \notin calls'[f]

OutageNext ==
    \/ \E f \in Filters : filterFactory(f) /\ UNCHANGED <<lruLog, stream, loader, locks>>
    \/ \E f \in Filters : OnDestroy(f) /\ UNCHANGED <<lruLog, stream, loader, locks>>
    \/ \E f \in Filters, t \in Tenants : LookupMemory(f, t) /\ UNCHANGED <<lruLog, stream, loader, locks>>
    \/ \E f \in Filters : LookupRedis(f) /\ UNCHANGED <<lruLog, stream, loader, locks>>
    \/ \E f \in Filters : LookupS3Outage(f) /\ UNCHANGED <<lruLog, stream, loader, locks>>
    \/ \E f \in Filters : Return(f) /\ UNCHANGED <<lruLog, stream, loader, locks>>
    \/ \E k \in RedisKeys : RedisExpire(k) /\ UNCHANGED <<lruLog, stream, loader, locks>>

OutageSpec == OutageInit /\ [][OutageNext]_vars

---------------------------------------------------------------------------
(* What the mapping document says, read off the document itself.           *)

InTable(t) == \E i \in 1..Len(table) : table[i].TenantID = t

FirstIndex(t) ==
    CHOOSE i \in 1..Len(table) :
        /\ table[i].TenantID = t
        /\ \A j \in 1..(i - 1) : table[j].TenantID # t

TableShard(t) == IF InTable(t) THEN table[FirstIndex(t)].ShardID ELSE ""

\* A Mapping pairs a tenant with a non-empty ShardID.
Mapped(t) == InTable(t) /\ TableShard(t) # ""

Running(f) == pc[f] \in {"redis", "s3", "cache"}
Returned(f) == pc[f] = "done"
FetchFailed(f) == "s3.GetObject:err" \in calls[f]

---------------------------------------------------------------------------
(* Claims *)

\* C1: a lookup for a tenant the document maps returns, and unless its S3
\* fetch failed it returns the document's shard with a nil error, whatever
\* the caches held when it started and whatever Redis answered.
C1_EventuallyFound ==
    \A f \in Filters :
        /\ [](Returned(f) /\ Mapped(tenantID[f]) /\ ~FetchFailed(f)
                => ret[f] = Found(TableShard(tenantID[f])))
        /\ [](Running(f) /\ Mapped(tenantID[f]) => <>Returned(f))

C1_Witness ==
    \E f \in Filters :
        /\ Returned(f) /\ Mapped(tenantID[f])
        /\ "redis.Get:err" \in calls[f] /\ "s3.GetObject:ok" \in calls[f]
        /\ ret[f] = Found(TableShard(tenantID[f]))

StartsLookup(f, t) == pc[f] = "idle" /\ pc'[f] # "idle" /\ tenantID'[f] = t

\* C2: the lookup that starts right after a lookup returned a shard for the
\* same tenant returns that shard from the memory cache, with no Redis call
\* and no S3 fetch.
C2_NextLookupFromMemory ==
    [][\A f \in Filters : \A t \in Tenants :
           (lastFound.tenant = t /\ StartsLookup(f, t))
               => /\ pc'[f] = "done"
                  /\ ret'[f] = Found(lastFound.shard)
                  /\ calls'[f] = {}]_vars

\* C3: a tenant the fetched document does not hold yields an outcome that is
\* not an error.
C3_NotMappedIsNotAnError ==
    \A f \in Filters :
        (Returned(f) /\ ~InTable(tenantID[f]) /\ "s3.GetObject:ok" \in calls[f])
            => ret[f].err = NilErr

\* C4: when the S3 fetch fails the lookup returns that error and no shard,
\* has issued no Redis Set and has put nothing in the memory cache for the
\* tenant.
C4_FetchFailureReturnsError ==
    \A f \in Filters :
        (Returned(f) /\ FetchFailed(f))
            => /\ ret[f].shard = ""
               /\ ret[f].err \in S3Errors
               /\ calls[f] \cap {"redis.Set:ok", "redis.Set:err"} = {}
               /\ ~lruContains(memoryCache[f], tenantID[f])

C4_Witness ==
    \E f \in Filters :
        /\ Returned(f) /\ FetchFailed(f)
        /\ ~redis[RedisKey(conf.RedisKeyPrefix, tenantID[f])].present

\* C5: a Redis error is never the error of the lookup; when the Redis Get
\* failed and the S3 fetch succeeded for a mapped tenant, the lookup returns
\* the document's shard and the memory cache holds it, whether or not the
\* Redis Set failed too.
C5_RedisOutageDegrades ==
    \A f \in Filters :
        /\ Returned(f) => ret[f].err # ErrRedis
        /\ (/\ Returned(f) /\ Mapped(tenantID[f])
            /\ "redis.Get:err" \in calls[f] /\ "s3.GetObject:ok" \in calls[f])
              => /\ ret[f] = Found(TableShard(tenantID[f]))
                 /\ lruPeek(memoryCache[f], tenantID[f]) = TableShard(tenantID[f])

C5_Witness ==
    \E f \in Filters :
        /\ Returned(f) /\ Mapped(tenantID[f])
        /\ {"redis.Get:err", "s3.GetObject:ok", "redis.Set:err"} \subseteq calls[f]
        /\ ret[f] = Found(TableShard(tenantID[f]))
        /\ ~redis[RedisKey(conf.RedisKeyPrefix, tenantID[f])].present

\* C6: no step gives a tenant that is absent from the document an entry in
\* a memory cache or in Redis.
C6_NoNegativeCaching ==
    [][\A t \in Tenants :
           ~InTable(t) =>
              /\ \A f \in Filters :
                    lruContains(memoryCache'[f], t) => lruContains(memoryCache[f], t)
              /\ \A p \in KeyPrefixes :
                    redis'[RedisKey(p, t)].present => redis[RedisKey(p, t)].present]_vars

C6_Witness ==
    \E f \in Filters :
        /\ Returned(f) /\ ~InTable(tenantID[f])
        /\ "s3.GetObject:ok" \in calls[f]
        /\ ret[f] = Failed(ErrNoMapping)

WritesBack(f) == pc[f] = "cache" /\ pc'[f] = "done"

\* C7 as claimed: after the memory cache and Redis both missed, the
\* write-back of an S3 hit leaves the mapping in Redis, under prefix+tenant
\* with the configured TTL, and in the memory cache.
C7_BothCachesHold ==
    [][\A f \in Filters :
           (WritesBack(f) /\ "redis.Get:nil" \in calls[f]) =>
              /\ ret'[f] = Found(shardID[f])
              /\ lruPeek(memoryCache'[f], tenantID[f]) = shardID[f]
              /\ redis'[RedisKey(conf.RedisKeyPrefix, tenantID[f])]
                    = Entry(shardID[f], conf.RedisTTL)]_vars

\* C7 amended: the write-back attempts the Redis Set and leaves the mapping
\* in the memory cache; Redis holds it, under prefix+tenant with the
\* configured TTL, when the Set succeeded, and is unchanged when it failed.
C7_WriteBackBestEffort ==
    [][\A f \in Filters :
           WritesBack(f) =>
              /\ ret'[f] = Found(shardID[f])
              /\ shardID[f] = TableShard(tenantID[f])
              /\ lruPeek(memoryCache'[f], tenantID[f]) = shardID[f]
              /\ calls'[f] \cap {"redis.Set:ok", "redis.Set:err"} # {}
              /\ "redis.Set:ok" \in calls'[f] =>
                    redis' = [redis EXCEPT ![RedisKey(conf.RedisKeyPrefix, tenantID[f])]
                                  = Entry(shardID[f], conf.RedisTTL)]
              /\ "redis.Set:err" \in calls'[f] => redis' = redis]_vars

C7_Witness ==
    \E f \in Filters :
        /\ Returned(f)
        /\ {"redis.Get:nil", "s3.GetObject:ok", "redis.Set:ok"} \subseteq calls[f]
        /\ tenantID[f] = "tenant1" /\ ret[f] = Found("shard-a")
        /\ redis[RedisKey(conf.RedisKeyPrefix, "tenant1")] = Entry("shard-a", conf.RedisTTL)
        /\ lruPeek(memoryCache[f], "tenant1") = "shard-a"

\* C8: a lookup whose tenant is in the memory cache returns the cached shard
\* in its first step, with no Redis Get or Set and no S3 fetch, and leaves
\* Redis as it was.
C8_MemoryHitStopsAtTier1 ==
    [][\A f \in Filters : \A t \in Tenants :
           (StartsLookup(f, t) /\ lruContains(memoryCache[f], t))
               => /\ pc'[f] = "done"
                  /\ ret'[f] = Found(lruPeek(memoryCache[f], t))
                  /\ calls'[f] = {}
                  /\ redis' = redis]_vars

C8_Witness ==
    \E f \in Filters :
        /\ Returned(f) /\ calls[f] = {}
        /\ ret[f].err = NilErr /\ ret[f].shard # ""
        /\ lruPeek(memoryCache[f], tenantID[f]) = ret[f].shard

\* C9: when the memory cache missed and the Redis Get answers a non-empty
\* value, the lookup puts it in the memory cache and returns it, with no S3
\* fetch and no Redis Set, Redis unchanged.
C9_RedisHitFillsMemory ==
    [][\A f \in Filters :
           LET e == redis[RedisKey(conf.RedisKeyPrefix, tenantID[f])] IN
           (/\ pc[f] = "redis" /\ pc'[f] # "redis"
            /\ "redis.Get:value" \in calls'[f] /\ e.val # "")
               => /\ pc'[f] = "done"
                  /\ ret'[f] = Found(e.val)
                  /\ lruPeek(memoryCache'[f], tenantID[f]) = e.val
                  /\ calls'[f] = {"redis.Get:value"}
                  /\ redis' = redis]_vars

C9_Witness ==
    \E f \in Filters :
        /\ Returned(f) /\ calls[f] = {"redis.Get:value"}
        /\ ret[f].err = NilErr /\ ret[f].shard # ""
        /\ lruPeek(memoryCache[f], tenantID[f]) = ret[f].shard

\* C10: no memory cache holds more entries than memory_cache_size.
C10_CacheWithinCapacity ==
    \A f \in Filters : Len(memoryCache[f]) <= conf.MemoryCacheSize

\* A full cache of one entry took a second tenant: the instance had stored
\* another tenant's shard before this lookup added its own.
C10_Witness ==
    \E f \in Filters :
        /\ conf.MemoryCacheSize = 1
        /\ Returned(f) /\ "s3.GetObject:ok" \in calls[f] /\ ret[f].err = NilErr
        /\ currentShardID[f] \notin {"", ret[f].shard}
        /\ Len(memoryCache[f]) = 1
        /\ memoryCache[f][1] = lruEntry(tenantID[f], ret[f].shard)

\* C11: the memory cache evicts by least recent use, a Get that hits counting
\* as a use like an Add: a key leaves the cache of a live instance only when
\* the cache is full and a new key is added, and the key that leaves is the
\* one used least recently, never the key whose Get has just hit when the
\* cache holds another one.
C11_EvictsLeastRecentlyUsed ==
    [][\A f \in Filters :
         created[f] /\ created'[f] =>
           LET before == lruKeys(memoryCache[f])
               after  == lruKeys(memoryCache'[f])
               order  == lruLog[f].order
           IN  \A k \in before \ after :
                 /\ Len(memoryCache[f]) = conf.MemoryCacheSize
                 /\ after \ before = {tenantID[f]}
                 /\ before \ after = {k}
                 /\ order # <<>> /\ k = order[Len(order)]
                 /\ lruLog[f].last.kind = "hit" /\ Len(memoryCache[f]) > 1
                      => k # lruLog[f].last.tenant
      ]_vars

\* A cache of two entries was full, the older entry was hit, then a third
\* tenant was added: the entry that was not hit is gone, the other two stay.
C11_Witness ==
    \E f \in Filters :
        /\ conf.MemoryCacheSize = 2
        /\ lruLog[f].prev = [kind |-> "hit", tenant |-> "tenant1", oldest |-> TRUE]
        /\ lruLog[f].last = [kind |-> "add", tenant |-> "acme", oldest |-> FALSE]
        /\ lruLog[f].evicted = "tenant2"
        /\ lruKeys(memoryCache[f]) = {"tenant1", "acme"}
        /\ ~lruContains(memoryCache[f], "tenant2")

\* C12: an empty ShardID is never cached and never returned as a hit: no
\* entry of a memory cache is empty, no lookup returns a nil error with an
\* empty shard, no step writes an empty value to Redis; an empty value read
\* from Redis sends the lookup on to S3, and an empty shard_id in the
\* document ends it as "no mapping", both leaving the caches as they were.
C12_EmptyShardNeverCached ==
    /\ [](\A f \in Filters :
            /\ \A i \in 1..Len(memoryCache[f]) : memoryCache[f][i].value # ""
            /\ Returned(f) /\ ret[f].err = NilErr => ret[f].shard # "")
    /\ [][/\ \A k \in RedisKeys :
               redis'[k] # redis[k] /\ redis'[k].present => redis'[k].val # ""
          /\ \A f \in Filters :
               LET key == RedisKey(conf.RedisKeyPrefix, tenantID[f]) IN
               /\ ( /\ pc[f] = "redis" /\ "redis.Get:value" \in calls'[f]
                    /\ redis[key].present /\ redis[key].val = "" )
                    => pc'[f] = "s3" /\ memoryCache' = memoryCache
               /\ ( /\ pc[f] = "s3" /\ "s3.GetObject:ok" \in calls'[f]
                    /\ InTable(tenantID[f]) /\ TableShard(tenantID[f]) = "" )
                    => /\ pc'[f] = "done"
                       /\ ret'[f] = Failed(ErrNoMapping)
                       /\ memoryCache' = memoryCache /\ redis' = redis
         ]_vars

\* A lookup read an empty value from Redis, went on to S3, found an empty
\* shard_id there and returned "no mapping".
C12_Witness ==
    \E f \in Filters :
        /\ Returned(f)
        /\ "redis.Get:value" \in calls[f]
        /\ "s3.GetObject:ok" \in calls[f]
        /\ redis[RedisKey(conf.RedisKeyPrefix, tenantID[f])] = Entry("", DefaultRedisTTL)
        /\ InTable(tenantID[f]) /\ TableShard(tenantID[f]) = ""
        /\ ret[f] = Failed(ErrNoMapping)
        /\ memoryCache[f] = <<>>

\* C13: the memory cache is one cache for all the filter instances built from
\* a configuration: the mapping the last lookup returned and cached is in the
\* memory cache of every live instance, the ones built afterwards included.
C13_MemoryCacheSharedByInstances ==
    \A f \in Filters :
        created[f] /\ lastFound.tenant # ""
            => lruPeek(memoryCache[f], lastFound.tenant) = lastFound.shard

\* C14: concurrent lookups that fill the caches redundantly do no harm: in
\* every interleaving over a fixed document, with Redis written by the
\* lookups only, every entry of a memory cache and every entry of Redis holds
\* the document's shard for its tenant, and every lookup that returns a shard
\* returns the document's shard.
C14_ConcurrentFillsAgree ==
    /\ \A f \in ConcFilters : \A i \in 1..Len(memoryCache[f]) :
          /\ Mapped(memoryCache[f][i].key)
          /\ memoryCache[f][i].value = TableShard(memoryCache[f][i].key)
    /\ \A t \in Tenants :
          LET e == redis[RedisKey(conf.RedisKeyPrefix, t)] IN
          e.present => Mapped(t) /\ e.val = TableShard(t)
    /\ \A f \in ConcFilters :
          Returned(f) /\ ret[f].err = NilErr
              => Mapped(tenantID[f]) /\ ret[f].shard = TableShard(tenantID[f])

\* Two instances missed both caches for one tenant, both fetched the
\* document, both wrote the caches and returned the same shard.
C14_Witness ==
    \E f, g \in ConcFilters :
        /\ f # g
        /\ Returned(f) /\ Returned(g)
        /\ tenantID[f] = tenantID[g]
        /\ "s3.GetObject:ok" \in calls[f] /\ "redis.Set:ok" \in calls[f]
        /\ "s3.GetObject:ok" \in calls[g] /\ "redis.Set:ok" \in calls[g]
        /\ ret[f] = Found(TableShard(tenantID[f]))
        /\ ret[g] = ret[f]

\* A step in which DecodeHeaders of instance f has been called.
Decodes(f) == stream[f].phase = "new" /\ stream'[f].phase \in {"decoding", "decoded"}

\* C15: DecodeHeaders returns Continue on every path (X-SHARD-ID already on
\* the request, no tenant extractable, empty tenant, lookup error, lookup
\* success) and EncodeHeaders returns Continue.
C15_AlwaysContinue ==
    \A f \in Filters :
        /\ stream[f].phase = "decoded" => stream[f].decodeStatus = "Continue"
        /\ stream[f].phase = "encoded" =>
              /\ stream[f].encodeStatus = "Continue"
              /\ stream[f].decodeStatus \in {"", "Continue"}

\* A stream whose lookup failed went through DecodeHeaders and EncodeHeaders.
C15_Witness ==
    \E f \in Filters :
        /\ stream[f].phase = "encoded"
        /\ stream[f].lookup = "error"
        /\ stream[f].decodeStatus = "Continue"
        /\ stream[f].encodeStatus = "Continue"

C17_ExistingShardHeaderSkips ==
    [][\A f \in Filters :
         Decodes(f) /\ stream'[f].request.shard # NoHeader =>
            /\ stream'[f].phase = "decoded"
            /\ stream'[f].lookup = ""
            /\ stream'[f].header = stream'[f].request
            /\ UNCHANGED <<memoryCache, redis, currentShardID, pc, tenantID,
                           shardID, ret, calls>>
      ]_vars

\* A request with X-SHARD-ID and the header of a mapped tenant, in header
\* mode, has passed DecodeHeaders.
C17_Witness ==
    \E f \in Filters :
        /\ conf.TenantExtractionMode = "header"
        /\ stream[f].phase = "decoded"
        /\ stream[f].request = RequestHeader("existing-shard", HostTenant1, "tenant1")
        /\ stream[f].header.shard = "existing-shard"
        /\ currentShardID[f] = ""

\* The first label of the host is not empty: the host has a dot and starts
\* with neither a dot nor a colon.
UsableSubdomain(host) ==
    /\ \E i \in 1..Len(host) : host[i] = "."
    /\ host[1] \notin {".", ":"}

\* The request names no tenant under the configured extraction mode.
InvalidInput(cf, h) ==
    \/ cf.TenantExtractionMode \notin {"subdomain", "header"}
    \/ cf.TenantExtractionMode = "header" /\ h.tenant \in {NoHeader, ""}
    \/ /\ cf.TenantExtractionMode = "subdomain"
       /\ (h.authority = NoAuthority \/ ~UsableSubdomain(h.authority))

\* C18: invalid input is rejected before any tier is touched: when the
\* tenant is empty or cannot be determined (no tenant header in header mode,
\* no :authority or no usable subdomain in subdomain mode) or the mode is
\* neither "subdomain" nor "header", DecodeHeaders starts no lookup, makes no
\* Redis call and no S3 fetch and leaves the caches as they were.
C18_InvalidInputTouchesNoTier ==
    [][\A f \in Filters :
         Decodes(f) /\ InvalidInput(conf, stream'[f].request) =>
            /\ stream'[f].phase = "decoded"
            /\ stream'[f].lookup = ""
            /\ UNCHANGED <<memoryCache, redis, currentShardID, pc, tenantID,
                           shardID, ret, calls>>
      ]_vars

\* A request with a usable host under an unsupported mode, and none with
\* X-SHARD-ID, has passed DecodeHeaders without a lookup.
C18_Witness ==
    \E f \in Filters :
        /\ conf.TenantExtractionMode = "path"
        /\ stream[f].phase = "decoded"
        /\ stream[f].request = RequestHeader(NoHeader, HostTenant1, NoHeader)
        /\ stream[f].lookup = ""
        /\ pc[f] = "idle"

\* C19: every network call is bounded by its deadline, so a lookup always
\* returns: a Redis Get that fails, by its timeout or otherwise, sends the
\* lookup on to S3 without a change of the caches, an S3 fetch that fails
\* ends the lookup with that error, and every lookup that has started
\* returns, whatever the tiers answer.
C19_LookupTerminates ==
    /\ \A f \in Filters : [](Running(f) => <>Returned(f))
    /\ [][\A f \in Filters :
            /\ pc[f] = "redis" /\ "redis.Get:err" \in calls'[f]
                 => pc'[f] = "s3" /\ memoryCache' = memoryCache /\ redis' = redis
            /\ pc[f] = "s3" /\ "s3.GetObject:err" \in calls'[f]
                 => /\ pc'[f] = "done"
                    /\ ret'[f].shard = "" /\ ret'[f].err \in S3Errors
                    /\ memoryCache' = memoryCache /\ redis' = redis
         ]_vars

\* A lookup whose Redis Get and whose S3 fetch both failed has returned.
C19_Witness ==
    \E f \in Filters :
        /\ Returned(f)
        /\ calls[f] = {"redis.Get:err", "s3.GetObject:err"}
        /\ ret[f].err \in S3Errors

\* C20: Parse validates the tunables: a configuration it returns without an
\* error has a positive memory cache size and the extraction mode
\* "subdomain" or "header", and filterFactory never panics on it.
C20_ParseValidatesTunables ==
    /\ loader.parsed /\ loader.err = NilErr =>
          /\ conf.MemoryCacheSize > 0
          /\ conf.TenantExtractionMode \in {"subdomain", "header"}
    /\ loader.panic = ""

\* The options of a configuration are absent or of the type Parse expects,
\* the durations in a format time.ParseDuration reads.
OptionsWellTyped(v) ==
    /\ v.s3_region.kind \in {"missing", "string"}
    /\ v.s3_endpoint.kind \in {"missing", "string"}
    /\ v.redis_password.kind \in {"missing", "string"}
    /\ v.redis_db.kind \in {"missing", "number"}
    /\ v.redis_key_prefix.kind \in {"missing", "string"}
    /\ v.memory_cache_size.kind \in {"missing", "number"}
    /\ v.tenant_extraction_mode.kind \in {"missing", "string"}
    /\ v.tenant_header_name.kind \in {"missing", "string"}
    /\ \A d \in {v.redis_ttl, v.redis_timeout, v.s3_timeout} :
          d.kind = "missing" \/ (d.kind = "string" /\ ParseDuration(d.str).ok)

RequiredThere(v) ==
    \A x \in {v.s3_bucket, v.s3_key, v.redis_addr} : x.kind = "string"

\* C21: Parse rejects a configuration that lacks a required field: when
\* s3_bucket, s3_key or redis_addr is missing or is not a string, Parse
\* returns an error and no configuration; when the three are strings and the
\* options are absent or well-typed, it returns a configuration, with the
\* three fields as given.
C21_RequiredFields ==
    loader.parsed =>
        /\ ~RequiredThere(loader.raw) => loader.err # NilErr /\ conf = ZeroConfig
        /\ RequiredThere(loader.raw) /\ OptionsWellTyped(loader.raw) =>
              /\ loader.err = NilErr
              /\ conf.S3Bucket = loader.raw.s3_bucket.str
              /\ conf.S3Key = loader.raw.s3_key.str
              /\ conf.RedisAddr = loader.raw.redis_addr.str

\* Parse has rejected a configuration whose only flaw is the missing s3_key.
C21_Witness ==
    /\ loader.parsed
    /\ loader.raw = RawConfig(Str("tenant-mappings"), Missing, Str("redis:6379"),
                              Missing, Missing)
    /\ loader.err = "missing s3_key"
    /\ conf = ZeroConfig

\* The value a configuration supplies for an option is the one Parse yields.
YieldsString(x, default, got) ==
    IF x.kind = "missing" THEN got = default
    ELSE x.kind = "string" /\ got = x.str

YieldsDuration(x, default, got) ==
    IF x.kind = "missing" THEN got = default
    ELSE x.kind = "string" /\ ParseDuration(x.str).ok /\ got = ParseDuration(x.str).d

\* C22: every option has a default and can be overridden on its own: a
\* configuration Parse returns holds, for s3_region, redis_key_prefix,
\* memory_cache_size, redis_ttl, tenant_extraction_mode, tenant_header_name,
\* redis_timeout and s3_timeout, the default when the option is absent and
\* the supplied value when it is present, whatever the other options are.
C22_DefaultsAndOverrides ==
    loader.parsed /\ loader.err = NilErr =>
        LET v == loader.raw IN
        /\ YieldsString(v.s3_region, DefaultS3Region, conf.S3Region)
        /\ YieldsString(v.redis_key_prefix, DefaultRedisKeyPrefix, conf.RedisKeyPrefix)
        /\ IF v.memory_cache_size.kind = "missing"
           THEN conf.MemoryCacheSize = DefaultMemoryCacheSize
           ELSE v.memory_cache_size.kind = "number"
                /\ conf.MemoryCacheSize * 10 = v.memory_cache_size.num
        /\ YieldsDuration(v.redis_ttl, DefaultRedisTTL, conf.RedisTTL)
        /\ YieldsString(v.tenant_extraction_mode, "subdomain", conf.TenantExtractionMode)
        /\ YieldsString(v.tenant_header_name, DefaultTenantHeaderName, conf.TenantHeaderName)
        /\ YieldsDuration(v.redis_timeout, DefaultRedisTimeout, conf.RedisTimeout)
        /\ YieldsDuration(v.s3_timeout, DefaultS3Timeout, conf.S3Timeout)

\* The document has several mappings for tenant t.
Duplicated(t) ==
    \E i, j \in 1..Len(table) :
        i # j /\ table[i].TenantID = t /\ table[j].TenantID = t

\* C23: when a tenant_id occurs more than once in the document, the lookup
\* uses the first occurrence in document order: the shard it returns, the
\* shard it writes to Redis and the shard it puts in the memory cache are
\* the ShardID of the first mapping of the tenant, never one of a later
\* duplicate.
C23_FirstOccurrenceWins ==
    \A t \in Tenants :
        Duplicated(t) =>
            /\ \A f \in Filters :
                  /\ Returned(f) /\ tenantID[f] = t /\ ret[f].err = NilErr
                        => ret[f].shard = table[FirstIndex(t)].ShardID
                  /\ lruContains(memoryCache[f], t)
                        => lruPeek(memoryCache[f], t) = table[FirstIndex(t)].ShardID
                  /\ pc[f] = "cache" /\ tenantID[f] = t
                        => shardID[f] = table[FirstIndex(t)].ShardID
            /\ LET e == redis[RedisKey(conf.RedisKeyPrefix, t)] IN
               e.present => e.val = table[FirstIndex(t)].ShardID

\* The lookup of a duplicated tenant went to S3 and returned the shard of
\* the first mapping, which is now in both caches.
C23_Witness ==
    \E f \in Filters :
        /\ Duplicated("tenant1")
        /\ Returned(f) /\ tenantID[f] = "tenant1"
        /\ calls[f] = {"redis.Get:nil", "s3.GetObject:ok", "redis.Set:ok"}
        /\ ret[f] = Found("shard-a")
        /\ lruPeek(memoryCache[f], "tenant1") = "shard-a"
        /\ redis[RedisKey(conf.RedisKeyPrefix, "tenant1")].val = "shard-a"

\* C24: the goroutines that call lookupInMemoryCache and cacheInMemory on
\* one filter never change the cache's list at the same time, and a Get
\* reads the list as the last completed Get or Add left it: it finds the
\* tenant exactly when the tenant is there, with the value last stored,
\* never a list another goroutine is halfway through changing.
C24_CacheMutationSerialized ==
    /\ Cardinality(locks.mutating) <= 1
    /\ locks.mutating = {} => locks.cache = locks.stable
    /\ \A r \in Routines :
           locks.g[r].op = "Get"
             /\ locks.g[r].pc \in {"relink", "libUnlock", "unlock", "returned"}
           => /\ locks.g[r].found = locks.g[r].stableFound
              /\ locks.g[r].got = locks.g[r].stableGot

\* Two lookups hold f.mu for reading at once: one is halfway through moving
\* the tenant's entry to the front, the other waits for the cache's lock to
\* read the same tenant, whose shard a cacheInMemory has replaced before.
C24_Witness ==
    \E r1, r2 \in Routines :
        /\ r1 # r2
        /\ {r1, r2} \subseteq locks.readers
        /\ locks.g[r1].pc = "relink"
        /\ locks.g[r2].pc = "lib"
        /\ locks.g[r1].tenant = "tenant1"
        /\ locks.g[r2].tenant = "tenant1"
        /\ locks.g[r1].got = "shard-b"

\* C25: the key of a tenant in Redis is RedisKeyPrefix followed by the
\* tenant, for Get and for Set alike: a key changes only when cacheInRedis
\* stores the fetched shard with RedisTTL under the key of its tenant, or
\* when it expires; a successful Set leaves the shard under that key; a
\* lookup answered by Redis returns what that key holds; and nothing held
\* under another prefix is ever returned or cached.
C25_KeysUnderPrefix ==
    /\ [][/\ \A k \in RedisKeys :
               redis'[k] # redis[k] =>
                   \/ redis'[k] = Absent
                   \/ \E f \in Filters :
                         /\ pc[f] = "cache"
                         /\ k = RedisKey(conf.RedisKeyPrefix, tenantID[f])
                         /\ redis'[k] = Entry(shardID[f], conf.RedisTTL)
          /\ \A f \in Filters :
               /\ pc[f] = "cache" /\ "redis.Set:ok" \in calls'[f]
                    => redis'[RedisKey(conf.RedisKeyPrefix, tenantID[f])]
                          = Entry(shardID[f], conf.RedisTTL)
               /\ pc[f] = "redis" /\ pc'[f] = "done"
                    => /\ redis[RedisKey(conf.RedisKeyPrefix, tenantID[f])].present
                       /\ ret'[f] = Found(redis[RedisKey(conf.RedisKeyPrefix,
                                                         tenantID[f])].val)]_vars
    /\ [](\A f \in Filters :
            /\ ret[f].shard # ForeignShard
            /\ \A i \in 1..Len(memoryCache[f]) :
                   memoryCache[f][i].value # ForeignShard)

\* Under the prefix "other:", a lookup for tenant1 has been answered by
\* Redis with the shard an earlier lookup stored, while the default prefix
\* holds another shard for that tenant.
C25_Witness ==
    \E f \in Filters :
        /\ conf.RedisKeyPrefix = OtherRedisKeyPrefix
        /\ pc[f] = "done" /\ tenantID[f] = "tenant1"
        /\ "redis.Get:value" \in calls[f]
        /\ ret[f] = Found("shard-a")
        /\ redis[RedisKey(OtherRedisKeyPrefix, "tenant1")] =
               Entry("shard-a", conf.RedisTTL)
        /\ redis[RedisKey(DefaultRedisKeyPrefix, "tenant1")].val = ForeignShard

\* The Redis key of the lookup of f holds a non-empty shard.
RedisHolds(f) ==
    LET e == redis[RedisKey(conf.RedisKeyPrefix, tenantID[f])] IN
    e.present /\ e.val # ""

\* C26 as claimed: while every S3 fetch fails, a lookup whose tenant the
\* memory cache holds, or whose tenant Redis holds with a non-empty shard
\* when the lookup gets to Redis, returns that shard and calls S3 never.
C26_FasterTierHolds ==
    [][\A f \in Filters :
          /\ \A t \in Tenants :
               (StartsLookup(f, t) /\ lruContains(memoryCache[f], t))
                  => /\ ret'[f] = Found(lruPeek(memoryCache[f], t))
                     /\ pc'[f] = "done"
          /\ (pc[f] = "redis" /\ pc'[f] # "redis" /\ RedisHolds(f))
                  => /\ ret'[f] = Found(redis[RedisKey(conf.RedisKeyPrefix,
                                                       tenantID[f])].val)
                     /\ pc'[f] = "done"]_vars

\* C26 amended: while every S3 fetch fails, a lookup whose tenant the memory
\* cache holds, or whose Redis Get succeeds with a non-empty shard, returns
\* that shard without calling S3; a lookup whose Redis Get fails goes on to
\* S3 although Redis holds the shard, and every lookup that gets to S3
\* returns the error of the fetch.
C26_FasterTierAnswers ==
    /\ [][\A f \in Filters :
            /\ \A t \in Tenants :
                 (StartsLookup(f, t) /\ lruContains(memoryCache[f], t))
                    => /\ ret'[f] = Found(lruPeek(memoryCache[f], t))
                       /\ pc'[f] = "done"
                       /\ calls'[f] = {}
            /\ (pc[f] = "redis" /\ pc'[f] # "redis" /\ RedisHolds(f))
                    => \/ /\ "redis.Get:err" \notin calls'[f]
                          /\ ret'[f] = Found(redis[RedisKey(conf.RedisKeyPrefix,
                                                            tenantID[f])].val)
                          /\ pc'[f] = "done"
                          /\ calls'[f] \cap {"s3.GetObject:ok", "s3.GetObject:err"} = {}
                       \/ /\ "redis.Get:err" \in calls'[f]
                          /\ pc'[f] = "s3"]_vars
    /\ [](\A f \in Filters :
            Returned(f) =>
               IF FetchFailed(f)
               THEN ret[f].err \in S3Errors
               ELSE /\ ret[f].err = NilErr
                    /\ ret[f].shard = TableShard(tenantID[f])
                    /\ ret[f].shard # "")

\* During the outage a lookup for acme was answered by Redis and a later
\* one, whose Redis Get failed while Redis held the shard, has returned the
\* error of S3.
C26_Witness ==
    \E f \in Filters :
        /\ Returned(f) /\ tenantID[f] = "tenant1"
        /\ calls[f] = {"redis.Get:err", "s3.GetObject:err"}
        /\ ret[f].err \in S3Errors
        /\ RedisHolds(f)
        /\ lruPeek(memoryCache[f], "acme") = "shard-c"

\* The fields of PluginConfig.
ConfigFields == DOMAIN ZeroConfig

\* C27: once Parse has returned a configuration it never changes: Merge
\* leaves the parent and the child as they were and returns a configuration
\* that holds, field by field, the child's value when that is not the zero
\* value and the parent's otherwise; and no step of a stream (DecodeHeaders
\* with its lookup, EncodeHeaders, OnDestroy) changes the parent, the child
\* or the merged configuration.
C27_ConfigNeverMutated ==
    /\ [][/\ loader.parsed => loader'.parentConf = loader.parentConf
          /\ loader.childParsed => loader'.childConf = loader.childConf
          /\ loader.merged => conf' = conf]_vars
    /\ [](loader.merged =>
            \A fld \in ConfigFields :
                conf[fld] = IF loader.childConf[fld] # ZeroConfig[fld]
                            THEN loader.childConf[fld]
                            ELSE loader.parentConf[fld])

\* The route's configuration took s3_endpoint from the parent
\* and the key prefix from the child, and a stream of the route has had its
\* lookup answered and its response header set.
C27_Witness ==
    \E f \in Filters :
        /\ loader.merged
        /\ loader.childConf.S3Endpoint = "" /\ conf.S3Endpoint # ""
        /\ loader.parentConf.RedisKeyPrefix = DefaultRedisKeyPrefix
        /\ conf.RedisKeyPrefix = OtherRedisKeyPrefix
        /\ stream[f].phase = "encoded" /\ stream[f].response = "shard-a"

\* C28: when the route's configuration leaves out an option that the
\* listener's configuration sets, the merged configuration holds the
\* listener's value of that option, not the default.
C28_ParentOptionKept ==
    loader.merged =>
        /\ (loader.child.memory_cache_size.kind = "missing"
              /\ loader.raw.memory_cache_size.kind # "missing")
             => conf.MemoryCacheSize = loader.parentConf.MemoryCacheSize
        /\ (loader.child.redis_ttl.kind = "missing"
              /\ loader.raw.redis_ttl.kind # "missing")
             => conf.RedisTTL = loader.parentConf.RedisTTL
        /\ (loader.child.redis_key_prefix.kind = "missing"
              /\ loader.raw.redis_key_prefix.kind # "missing")
             => conf.RedisKeyPrefix = loader.parentConf.RedisKeyPrefix
        /\ (loader.child.s3_endpoint.kind = "missing"
              /\ loader.raw.s3_endpoint.kind # "missing")
             => conf.S3Endpoint = loader.parentConf.S3Endpoint

\* The characters of the host before its first dot or colon.
FirstLabel(host) ==
    IF \E i \in 1..Len(host) : host[i] \in {".", ":"}
    THEN LET n == CHOOSE i \in 1..Len(host) :
                      /\ host[i] \in {".", ":"}
                      /\ \A j \in 1..(i - 1) : host[j] \notin {".", ":"}
         IN  SubSeq(host, 1, n - 1)
    ELSE host

HasDot(host) == \E i \in 1..Len(host) : host[i] = "."

\* A request for subdomain mode: :authority is there, X-SHARD-ID is not.
BySubdomain(h) ==
    /\ conf.TenantExtractionMode = "subdomain"
    /\ h.shard = NoHeader
    /\ h.authority # NoAuthority

\* C29: in subdomain mode DecodeHeaders looks up the first label of
\* :authority without its port when the host has a dot and that label is
\* not empty (tenant1.example.com and tenant1:80.example.com give tenant1);
\* when the host has no dot (localhost:10000) or starts with a dot
\* (.example.com) it starts no lookup, touches no tier, and the response of
\* that stream carries no X-SHARD-ID.
C29_SubdomainIsFirstLabel ==
    /\ [][\A f \in Filters :
            LET h == stream'[f].request IN
            Decodes(f) /\ BySubdomain(h) =>
               IF HasDot(h.authority) /\ FirstLabel(h.authority) # <<>>
               THEN /\ pc'[f] # "idle"
                    /\ tenantID'[f] = String(FirstLabel(h.authority))
                    /\ stream'[f].phase = "decoding"
               ELSE /\ stream'[f].phase = "decoded"
                    /\ stream'[f].lookup = ""
                    /\ UNCHANGED <<memoryCache, redis, currentShardID, pc,
                                   tenantID, shardID, ret, calls>>]_vars
    /\ [](\A f \in Filters :
            (/\ stream[f].phase = "encoded"
             /\ BySubdomain(stream[f].request)
             /\ ~(HasDot(stream[f].request.authority)
                    /\ FirstLabel(stream[f].request.authority) # <<>>))
               => stream[f].response = NoHeader)

\* The request for tenant1:80.example.com has been answered with the shard
\* of tenant1.
C29_Witness ==
    \E f \in Filters :
        /\ conf.TenantExtractionMode = "subdomain"
        /\ stream[f].phase = "encoded"
        /\ stream[f].request = RequestHeader(NoHeader, HostPortInLabel, NoHeader)
        /\ stream[f].lookup = "shard-a"
        /\ stream[f].response = "shard-a"

====
